---- MODULE Spec2Model ----
(***************************************************************************)
(* Model of wechat_daily_report: the daily-report run                      *)
(* (main.py, WeChatDailyReporter.run_daily_report), the chat-log client    *)
(* (src/wechat_client.py), the report generator (src/report_generator.py)  *)
(* and the exporter's pager (export_chat_logs.py).                         *)
(***************************************************************************)
EXTENDS Integers, Sequences, FiniteSets, TLC

(***************************************************************************)
(* Bounds of the model.                                                    *)
(***************************************************************************)
NumGroups == 2          \* configured groups are 1..NumGroups, in TARGET_GROUPS order
NumDates == 2           \* report dates are 1..NumDates
MaxRecs == 2            \* upstream record sequences up to this length are all tried
MaxLimit == 4           \* largest configured max_messages_per_group
MaxTime == 1            \* values of datetime.now() seen by generate_daily_report
MaxPageSize == 2        \* largest page size (limit) given to the exporter's pager
MaxReqs == 3            \* page requests of the pager whose history is recorded
MaxSaves == 3           \* calls of save_report in the persistence specification
MaxSections == 3        \* longest list given to generate_daily_report on its own
MaxLines == 3           \* record lists up to this length are given to a summarizer
FirstYear == 2024       \* report dates of the window specification start in this year
NumYears == 2           \* and span this many years
MaxDepth == 2           \* proxy contexts of one manager active at the same time
NumDays == 3            \* the days of January a --date argument may name

(***************************************************************************)
(* Program constants.                                                      *)
(***************************************************************************)
TextType == 1           \* log.get('type') == 1 : text message
ImageType == 3          \* type 3 : image message
LinkType == 49          \* type 49 : link share / quote reply
DefaultType == 0        \* log.get('type', 0), log.get('subType', 0) : key absent
SubLink == 51           \* subType 51 : link share
SubRefer == 57          \* subType 57 : quote reply

Groups == 1..NumGroups
Dates == 1..NumDates
MsgTypes == {TextType, ImageType}

Min(a, b) == IF a <= b THEN a ELSE b

\* all sequences over S of length at most n
SeqsUpTo(S, n) == UNION {[1..k -> S] : k \in 0..n}

\* three text messages and one image
ExampleLogs == <<TextType, TextType, TextType, ImageType>>

\* the record sequences the upstream may hold for one group and window;
\* a record is represented by its 'type' field
Logs == SeqsUpTo(MsgTypes, MaxRecs) \cup {ExampleLogs}

VARIABLES
    \* ---- WeChatDailyReporter.run_daily_report (main.py) ----
    max_messages_per_group, \* config['max_messages_per_group']
    pc,                     \* position of run_daily_report(date, skip_existing=False)
    report_date,            \* argument of the current run, 0 before any run
    gi,                     \* index of the group the loop is about to process
    summaries,              \* the local list `summaries`
    upstream,               \* per group, the records the upstream answered from
    requests,               \* chat-log requests issued and how they were answered
    summarizer_calls,       \* calls of summarize_chat_logs, in order
    files,                  \* the report files: path -> content
    group_files,            \* per-group report files written
    notifications,          \* sink invocations, in order
    result,                 \* value returned by run_daily_report
    error,                  \* exception that left run_daily_report
    \* ---- ChatLogExporter.get_chat_logs (export_chat_logs.py) ----
    ex_pc,                  \* "idle", "loop" (inside while True) or "done" (returned)
    ex_limit,               \* argument limit, the page size
    ex_offset,              \* local offset
    all_logs,               \* local all_logs, the value returned
    ex_requests,            \* offsets of the requests issued, in order
    ex_pages,               \* the upstream's answers, in order
    ex_served,              \* number of records the upstream has served
    ex_round,               \* loop iterations modulo 2
    ex_trunc,               \* more than MaxReqs requests: history no longer recorded
    \* ---- ReportGenerator.save_report called on its own ----
    saved,                  \* the calls made: sequence of [content, date]
    \* ---- ReportGenerator.generate_daily_report called on its own ----
    tpl_summaries,          \* argument summaries of the last call
    tpl_content,            \* the content it returned
    \* ---- _format_messages / format_messages applied to one record ----
    norm_log,               \* the record
    norm_by,                \* "summarizer" or "exporter": whose method ran
    norm_out,               \* its outcome: a line, a drop or an exception
    \* ---- a remote summarizer's summarize_chat_logs ----
    sum_pc,                 \* position in summarize_chat_logs
    sum_logs,               \* argument chat_logs
    sum_prompt,             \* the prompts sent to the model, by their transcript
    sum_reply,              \* the text the model answered with
    sum_result,             \* the value returned
    sum_error,              \* the exception raised
    \* ---- WeChatAPIClient.get_daily_report_chats: the time window ----
    win_date,               \* argument report_date
    win_range,              \* the time_range handed to get_chat_logs
    \* ---- ProxyManager.proxy_context ----
    proxy_pc,               \* "outside", "body", "exited"
    proxy_config,           \* [enabled, http_proxy, https_proxy]
    environ,                \* os.environ restricted to the four proxy variables
    original_env,           \* self._original_env
    env_at_entry,           \* os.environ when proxy_context was entered
    body_outcome,           \* how the body of the with statement ended
    proxy_stack,            \* the contexts entered and not yet exited, innermost last
    env_before_first,       \* os.environ before the outermost active context
    \* ---- WeChatDailyReporter.__init__ ----
    cfg_env,                \* the environment after load_dotenv
    ctor_pc,                \* "start", "constructed" or "raised"
    ctor_steps,             \* the components constructed, in order
    ctor_summarizer,        \* the summarizer built by the factory
    ctor_error,             \* the exception raised
    \* ---- LocalSummarizer.summarize_chat_logs ----
    loc_pc,                 \* "idle", "returned" or "raised"
    loc_logs,               \* argument chat_logs
    loc_result,             \* the value returned
    loc_error,              \* the exception raised
    \* ---- both normalizers applied to one record list ----
    cmp_logs,               \* the record list
    cmp_summarizer,         \* what BaseSummarizer._format_messages gave
    cmp_exporter,           \* what ChatLogExporter.format_messages gave
    \* ---- main() of main.py ----
    m_pc,                   \* position in main
    m_arg,                  \* args.date
    m_dates,                \* the list parse_date_range returned
    m_idx,                  \* index of the date the range loop is about to process
    m_existing,             \* the dates whose report file existed when main started
    m_files,                \* the report files on disk: date string -> content
    m_events,               \* what the runs did: probes, fetches, writes, ...
    m_outcomes,             \* per date of the range loop, how it ended
    m_generated,            \* generated_count
    m_skipped,              \* skipped_count
    m_exit,                 \* the exit code returned
    \* ---- main() of export_chat_logs.py ----
    xm_pc,                  \* position in main
    xm_arg,                 \* args.date
    xm_range,               \* (start_date, end_date) as parsed
    xm_events,              \* what the export did
    xm_exit                 \* the exit code returned

runVars == <<max_messages_per_group, pc,
             report_date, gi, summaries, upstream, requests, summarizer_calls,
             group_files, notifications, result, error>>
pagerVars == <<ex_pc, ex_limit, ex_offset, all_logs, ex_requests, ex_pages,
               ex_served, ex_round, ex_trunc>>
renderVars == <<tpl_summaries, tpl_content>>
normVars == <<norm_log, norm_by, norm_out>>
sumVars == <<sum_pc, sum_logs, sum_prompt, sum_reply, sum_result, sum_error>>
winVars == <<win_date, win_range>>
proxyVars == <<proxy_pc, proxy_config, environ, original_env, env_at_entry,
               body_outcome, proxy_stack, env_before_first>>
constructVars == <<cfg_env, ctor_pc, ctor_steps, ctor_summarizer, ctor_error>>
localVars == <<loc_pc, loc_logs, loc_result, loc_error>>
cmpVars == <<cmp_logs, cmp_summarizer, cmp_exporter>>
mainVars == <<m_pc, m_arg, m_dates, m_idx, m_existing, m_files, m_events,
              m_outcomes, m_generated, m_skipped, m_exit>>
exportVars == <<xm_pc, xm_arg, xm_range, xm_events, xm_exit>>
entryVars == <<constructVars, localVars, cmpVars, mainVars, exportVars>>
vars == <<runVars, files, pagerVars, saved, renderVars, normVars, sumVars,
          winVars, proxyVars, entryVars>>

NoResult == "none"
NoError == "none"

(***************************************************************************)
(* The chat-log upstream (GET /api/v1/chatlog) as the client uses it:      *)
(* at most `limit` records starting at `offset`.                           *)
(***************************************************************************)
Serve(recs, limit, offset) ==
    SubSeq(recs, offset + 1, Min(offset + limit, Len(recs)))

\* WeChatAPIClient.get_chat_logs: a RequestException is logged and turned
\* into the empty list
Client_get_chat_logs(recs, limit, offset, transport_ok) ==
    IF transport_ok THEN Serve(recs, limit, offset) ELSE <<>>

\* the call made without the caller's limit: get_chat_logs keeps limit=200
get_daily_report_chats_default_limit(recs, limit, transport_ok) ==
    Client_get_chat_logs(recs, 200, 0, transport_ok)

\* WeChatAPIClient.get_daily_report_chats: one call of get_chat_logs for the
\* window of report_date, with the caller's limit and the default offset 0
get_daily_report_chats(recs, limit, transport_ok) ==
    Client_get_chat_logs(recs, limit, 0, transport_ok)

\* len(chat_logs): every record counted, whatever its type
CountText_all(logs) == Len(logs)

\* len([log for log in chat_logs if log.get('type') == 1])
RECURSIVE CountText(_)
CountText(logs) ==
    IF logs = <<>> THEN 0
    ELSE (IF Head(logs) = TextType THEN 1 ELSE 0) + CountText(Tail(logs))

\* the three summaries run_daily_report can append for a group
NoRecordsSummary(g) == [kind |-> "no_records", group |-> g, logs |-> <<>>]
FailedSummary(g) == [kind |-> "failed", group |-> g, logs |-> <<>>]
Digest(g, logs) == [kind |-> "digest", group |-> g, logs |-> logs]
\* a record's summary that is the empty string: falsy in `{% if summary.summary %}`
EmptySummary(g) == [kind |-> "empty", group |-> g, logs |-> <<>>]

SummaryRecord(g, s, n) == [group_name |-> g, summary |-> s, message_count |-> n]

\* sum(s.get('message_count', 0) for s in summaries)
RECURSIVE SumCounts(_)
SumCounts(ss) ==
    IF ss = <<>> THEN 0 ELSE Head(ss).message_count + SumCounts(Tail(ss))

\* the default template's loop: a record with a truthy summary renders its
\* summary, followed by a rule unless it is the last record of the list
RECURSIVE RenderSections(_, _)
RenderSections(ss, i) ==
    IF i > Len(ss) THEN <<>>
    ELSE (IF ss[i].summary.kind # "empty"
          THEN <<[body |-> ss[i].summary, rule_after |-> i < Len(ss)]>>
          ELSE <<>>)
         \o RenderSections(ss, i + 1)

\* ReportGenerator.generate_daily_report
generate_daily_report(ss, date, now) ==
    [report_date |-> date,
     generation_time |-> now,
     total_groups |-> Len(ss),
     total_messages |-> SumCounts(ss),
     sections |-> RenderSections(ss, 1)]

\* ReportGenerator.save_report: os.path.join(output_dir,
\* f"wechat_daily_report_{report_date}.md")
ReportPath(date) == [dir |-> "reports", date |-> date]

\* the same with the file opened in append mode, open(filepath, 'a')
save_report_append(fs, content, date) ==
    [p \in (DOMAIN fs) \cup {ReportPath(date)} |->
        IF p = ReportPath(date)
        THEN (IF p \in DOMAIN fs THEN Append(fs[p], content) ELSE <<content>>)
        ELSE fs[p]]

\* ReportGenerator.save_report: open(filepath, 'w') ; f.write(content).
\* A file system maps the paths of the existing files to their content, the
\* sequence of the chunks written to the file.
save_report(fs, content, date) ==
    [p \in (DOMAIN fs) \cup {ReportPath(date)} |->
        IF p = ReportPath(date) THEN <<content>> ELSE fs[p]]

\* the methods the class ReportGenerator defines
ReportGeneratorMethods ==
    {"__init__", "generate_daily_report", "save_report",
     "_get_template_content", "_get_default_template"}

(***************************************************************************)
(* The daily-report run.  Initial state: a constructed reporter, no run    *)
(* started, no report file on disk.                                        *)
(***************************************************************************)
RunInit ==
    /\ max_messages_per_group \in 1..MaxLimit
    /\ pc = "idle"
    /\ report_date = 0
    /\ gi = 0
    /\ summaries = <<>>
    /\ upstream = [g \in Groups |-> <<>>]
    /\ requests = <<>>
    /\ summarizer_calls = <<>>
    /\ files = <<>>
    /\ group_files = {}
    /\ notifications = <<>>
    /\ result = NoResult
    /\ error = NoError

\* the probe with its answer logged and not acted upon
health_check_step_ignoring ==
    /\ pc = "idle"
    /\ \E d \in Dates, alive \in BOOLEAN :
          /\ report_date' = d
          /\ IF alive
             THEN /\ pc' = "loop"
                  /\ gi' = 1
                  /\ error' = error
             ELSE /\ pc' = "loop"
                  /\ gi' = 1
                  /\ error' = "RuntimeError_unavailable"
    /\ UNCHANGED <<max_messages_per_group, summaries, upstream, requests,
                   summarizer_calls, files, group_files, notifications, result>>
    /\ UNCHANGED <<pagerVars, saved, renderVars, normVars, sumVars,
                   winVars, proxyVars>>
    /\ UNCHANGED entryVars

\* run_daily_report up to the loop: the liveness probe
health_check_step ==
    /\ pc = "idle"
    /\ \E d \in Dates, alive \in BOOLEAN :
          /\ report_date' = d
          /\ IF alive
             THEN /\ pc' = "loop"
                  /\ gi' = 1
                  /\ error' = error
             ELSE /\ pc' = "raised"
                  /\ gi' = gi
                  /\ error' = "RuntimeError_unavailable"
    /\ UNCHANGED <<max_messages_per_group, summaries, upstream, requests,
                   summarizer_calls, files, group_files, notifications, result>>
    /\ UNCHANGED <<pagerVars, saved, renderVars, normVars, sumVars,
                   winVars, proxyVars>>
    /\ UNCHANGED entryVars

\* the request get_daily_report_chats sends for group g, with its answer
Request(g, answer) ==
    [talker |-> g, limit |-> max_messages_per_group, offset |-> 0,
     date |-> report_date, answer |-> answer]

\* the summarizer's error handled like the other errors of a group
OnSummarizerError_swallowed(g) ==
    /\ summaries' = Append(summaries, SummaryRecord(g, FailedSummary(g), 0))
    /\ gi' = gi + 1
    /\ error' = "RuntimeError_summarizer"
    /\ pc' = pc

\* what the loop does with a group whose summarizer call raised:
\* `except RuntimeError: raise`
OnSummarizerError(g) ==
    /\ pc' = "raised"
    /\ error' = "RuntimeError_summarizer"
    /\ UNCHANGED <<gi, summaries>>

\* the same iteration with a client that lets the RequestException through
GroupNoRecords_uncaught ==
    /\ pc = "loop" /\ gi <= NumGroups
    /\ \E recs \in Logs, transport_ok \in BOOLEAN :
          /\ transport_ok => Serve(recs, max_messages_per_group, 0) = <<>>
          /\ upstream' = IF transport_ok THEN [upstream EXCEPT ![gi] = recs]
                                          ELSE upstream
          /\ requests' = Append(requests,
                 Request(gi, IF transport_ok THEN "ok" ELSE "transport"))
          /\ summaries' = Append(summaries,
                 SummaryRecord(gi, IF transport_ok THEN NoRecordsSummary(gi)
                                   ELSE FailedSummary(gi), 0))
    /\ gi' = gi + 1
    /\ UNCHANGED <<max_messages_per_group, pc,
                   report_date, summarizer_calls, files, group_files,
                   notifications, result, error>>
    /\ UNCHANGED <<pagerVars, saved, renderVars, normVars, sumVars,
                   winVars, proxyVars>>
    /\ UNCHANGED entryVars

\* one loop iteration whose fetch yields no records: the upstream has none,
\* or the request failed in transport and the client returned []
GroupNoRecords ==
    /\ pc = "loop" /\ gi <= NumGroups
    /\ \E recs \in Logs, transport_ok \in BOOLEAN :
          /\ get_daily_report_chats(recs, max_messages_per_group, transport_ok) = <<>>
          /\ upstream' = IF transport_ok THEN [upstream EXCEPT ![gi] = recs]
                                          ELSE upstream
          /\ requests' = Append(requests,
                 Request(gi, IF transport_ok THEN "ok" ELSE "transport"))
    /\ summaries' = Append(summaries, SummaryRecord(gi, NoRecordsSummary(gi), 0))
    /\ gi' = gi + 1
    /\ UNCHANGED <<max_messages_per_group, pc,
                   report_date, summarizer_calls, files, group_files,
                   notifications, result, error>>
    /\ UNCHANGED <<pagerVars, saved, renderVars, normVars, sumVars,
                   winVars, proxyVars>>
    /\ UNCHANGED entryVars

\* one loop iteration with records and a summarizer call that returns
GroupSummarized ==
    /\ pc = "loop" /\ gi <= NumGroups
    /\ \E recs \in Logs :
          LET chat_logs == get_daily_report_chats(recs, max_messages_per_group, TRUE)
          IN /\ chat_logs # <<>>
             /\ upstream' = [upstream EXCEPT ![gi] = recs]
             /\ requests' = Append(requests, Request(gi, "ok"))
             /\ summarizer_calls' = Append(summarizer_calls,
                                           [group |-> gi, logs |-> chat_logs])
             /\ summaries' = Append(summaries,
                                    SummaryRecord(gi, Digest(gi, chat_logs),
                                                  CountText(chat_logs)))
    /\ gi' = gi + 1
    /\ UNCHANGED <<max_messages_per_group, pc,
                   report_date, files, group_files, notifications, result, error>>
    /\ UNCHANGED <<pagerVars, saved, renderVars, normVars, sumVars,
                   winVars, proxyVars>>
    /\ UNCHANGED entryVars

\* one loop iteration with records and a summarizer call that raises: the
\* RuntimeError is re-raised out of the loop and out of run_daily_report
GroupSummarizerFails ==
    /\ pc = "loop" /\ gi <= NumGroups
    /\ \E recs \in Logs :
          LET chat_logs == get_daily_report_chats(recs, max_messages_per_group, TRUE)
          IN /\ chat_logs # <<>>
             /\ upstream' = [upstream EXCEPT ![gi] = recs]
             /\ requests' = Append(requests, Request(gi, "ok"))
             /\ summarizer_calls' = Append(summarizer_calls,
                                           [group |-> gi, logs |-> chat_logs])
    /\ OnSummarizerError(gi)
    /\ UNCHANGED <<max_messages_per_group, report_date, files, group_files, notifications, result>>
    /\ UNCHANGED <<pagerVars, saved, renderVars, normVars, sumVars,
                   winVars, proxyVars>>
    /\ UNCHANGED entryVars

\* the same iteration with an `except Exception` that only logs
GroupProcessingError_skipping ==
    /\ pc = "loop" /\ gi <= NumGroups
    /\ requests' = Append(requests, Request(gi, "error"))
    /\ gi' = gi + 1
    /\ UNCHANGED <<max_messages_per_group, pc, summaries,
                   report_date, upstream, summarizer_calls, files, group_files,
                   notifications, result, error>>
    /\ UNCHANGED <<pagerVars, saved, renderVars, normVars, sumVars,
                   winVars, proxyVars>>
    /\ UNCHANGED entryVars

\* one loop iteration in which an exception that is neither a
\* RequestException nor a RuntimeError escapes the fetch of the group (for
\* instance a response body that cannot be decoded): `except Exception`
\* appends a failure record and the loop goes on
GroupProcessingError ==
    /\ pc = "loop" /\ gi <= NumGroups
    /\ requests' = Append(requests, Request(gi, "error"))
    /\ summaries' = Append(summaries, SummaryRecord(gi, FailedSummary(gi), 0))
    /\ gi' = gi + 1
    /\ UNCHANGED <<max_messages_per_group, pc,
                   report_date, upstream, summarizer_calls, files, group_files,
                   notifications, result, error>>
    /\ UNCHANGED <<pagerVars, saved, renderVars, normVars, sumVars,
                   winVars, proxyVars>>
    /\ UNCHANGED entryVars

\* after the loop: generate_daily_report, then save_report
GenerateAndSave ==
    /\ pc = "loop" /\ gi = NumGroups + 1
    /\ \E now \in 1..MaxTime :
          files' = save_report(files,
                               generate_daily_report(summaries, report_date, now),
                               report_date)
    /\ pc' = "group_reports"
    /\ UNCHANGED <<max_messages_per_group, report_date, gi, summaries, upstream, requests,
                   summarizer_calls, group_files, notifications, result, error>>
    /\ UNCHANGED <<pagerVars, saved, renderVars, normVars, sumVars,
                   winVars, proxyVars>>
    /\ UNCHANGED entryVars

\* self.report_generator.save_group_reports(summaries, report_date): the
\* attribute lookup on the ReportGenerator instance, outside any try.  When
\* the class has no such method the lookup raises AttributeError and the
\* rest of run_daily_report (the notifications, the return) is not run.
save_group_reports_step ==
    /\ pc = "group_reports"
    /\ IF "save_group_reports" \in ReportGeneratorMethods
       THEN /\ pc' = "notify"
            /\ error' = error
       ELSE /\ pc' = "raised"
            /\ error' = "AttributeError"
    /\ UNCHANGED <<max_messages_per_group, report_date, gi, summaries, upstream, requests,
                   summarizer_calls, files, group_files, notifications, result>>
    /\ UNCHANGED <<pagerVars, saved, renderVars, normVars, sumVars,
                   winVars, proxyVars>>
    /\ UNCHANGED entryVars

RunNext ==
    \/ health_check_step
    \/ GroupNoRecords
    \/ GroupSummarized
    \/ GroupSummarizerFails
    \/ GroupProcessingError
    \/ GenerateAndSave
    \/ save_group_reports_step

(***************************************************************************)
(* The exporter's pager, ChatLogExporter.get_chat_logs.  The upstream is   *)
(* free to answer each request as it likes: a JSON list or an object with  *)
(* a `data` list of any length, another JSON value, a transport failure    *)
(* (which WeChatAPIClient.get_chat_logs turns into []), or an exception    *)
(* of another kind.  Records are numbered in the order they are served.    *)
(***************************************************************************)
AnswerKinds == {"list", "dict", "other", "transport", "exception"}

\* the records of an answer of n records, the upstream having served c before
Fresh(c, n) == [i \in 1..n |-> c + i]

\* isinstance(response_data, dict) / isinstance(response_data, list):
\* the logs of an answer, for the answers that have some
PageLogs(page) == IF page.kind \in {"list", "dict"} THEN page.logs ELSE <<>>

\* the exhaustion test written `len(logs) <= limit`
Breaks_on_full_page(page, limit) ==
    \/ page.kind \in {"exception", "other"}
    \/ PageLogs(page) = <<>>
    \/ Len(PageLogs(page)) <= limit

\* the loop body's decision: TRUE when the loop breaks after this answer
Breaks(page, limit) ==
    \/ page.kind \in {"exception", "other"}
    \/ PageLogs(page) = <<>>
    \/ Len(PageLogs(page)) < limit

\* all_logs.extend(logs)
Extend(acc, logs) == acc \o logs

\* the same with a failed request discarding what was accumulated
AfterAnswer_discarding(acc, page) ==
    IF page.kind \in {"exception", "transport"}
    THEN <<>>
    ELSE IF page.kind = "other" \/ PageLogs(page) = <<>>
         THEN acc
         ELSE Extend(acc, PageLogs(page))

\* the value of all_logs after the loop body has handled an answer: the
\* answer's logs are appended unless the body broke before the extend
AfterAnswer(acc, page) ==
    IF page.kind \in {"exception", "other"} \/ PageLogs(page) = <<>>
    THEN acc
    ELSE Extend(acc, PageLogs(page))

PagerInit ==
    /\ ex_pc = "idle"
    /\ ex_limit = 0
    /\ ex_offset = 0
    /\ all_logs = <<>>
    /\ ex_requests = <<>>
    /\ ex_pages = <<>>
    /\ ex_served = 0
    /\ ex_round = 0
    /\ ex_trunc = FALSE

\* the call get_chat_logs(group_name, start_date, end_date, limit), up to the loop
Exporter_start ==
    /\ ex_pc = "idle"
    /\ \E P \in 0..MaxPageSize : ex_limit' = P
    /\ ex_pc' = "loop"
    /\ ex_offset' = 0
    /\ all_logs' = <<>>
    /\ UNCHANGED <<ex_requests, ex_pages, ex_served, ex_round, ex_trunc>>
    /\ UNCHANGED <<runVars, files, saved, renderVars, normVars, sumVars,
                   winVars, proxyVars>>
    /\ UNCHANGED entryVars

\* one iteration of `while True`: the request at the current offset, the
\* answer, and the loop body's reaction to it.  The loop's control depends
\* on the answer and on limit only, never on what was accumulated: the
\* first MaxReqs iterations are recorded in full; a later iteration runs the
\* same test, sets ex_trunc and leaves the recorded history as it is.
Exporter_iteration ==
    /\ ex_pc = "loop"
    /\ \E kind \in AnswerKinds, n \in 0..(ex_limit + 1) :
          LET page == [kind |-> kind,
                       logs |-> IF kind \in {"list", "dict"}
                                THEN Fresh(ex_served, n) ELSE <<>>]
              recording == Len(ex_requests) < MaxReqs
          IN /\ kind \notin {"list", "dict"} => n = 0
             /\ ex_pc' = IF Breaks(page, ex_limit) THEN "done" ELSE "loop"
             /\ ex_round' = 1 - ex_round
             /\ IF recording
                THEN /\ ex_requests' = Append(ex_requests, ex_offset)
                     /\ ex_pages' = Append(ex_pages, page)
                     /\ ex_served' = ex_served + Len(page.logs)
                     /\ all_logs' = AfterAnswer(all_logs, page)
                     /\ ex_offset' = IF Breaks(page, ex_limit)
                                     THEN ex_offset
                                     ELSE ex_offset + ex_limit
                     /\ ex_trunc' = ex_trunc
                ELSE /\ ex_trunc' = TRUE
                     /\ UNCHANGED <<ex_requests, ex_pages, ex_served, all_logs,
                                    ex_offset>>
    /\ UNCHANGED ex_limit
    /\ UNCHANGED <<runVars, files, saved, renderVars, normVars, sumVars,
                   winVars, proxyVars>>
    /\ UNCHANGED entryVars

PagerNext ==
    \/ Exporter_start
    \/ Exporter_iteration

(***************************************************************************)
(* ReportGenerator.save_report called on its own, with any content and     *)
(* date, any number of times (at most MaxSaves in the model).              *)
(***************************************************************************)
SaveSummaries ==
    {<<>>,
     <<SummaryRecord(1, NoRecordsSummary(1), 0)>>,
     <<SummaryRecord(1, Digest(1, <<TextType>>), 1)>>}

SaveContents ==
    {generate_daily_report(ss, 1, now) : ss \in SaveSummaries, now \in 1..MaxTime}

SaveInit ==
    /\ files = <<>>
    /\ saved = <<>>

save_report_call ==
    /\ Len(saved) < MaxSaves
    /\ \E content \in SaveContents, d \in Dates :
          /\ files' = save_report(files, content, d)
          /\ saved' = Append(saved, [content |-> content, date |-> d,
                                     path |-> ReportPath(d)])
    /\ UNCHANGED <<runVars, pagerVars, renderVars, normVars, sumVars,
                   winVars, proxyVars>>
    /\ UNCHANGED entryVars

SaveNext == save_report_call

(***************************************************************************)
(* ReportGenerator.generate_daily_report called on its own, with any list  *)
(* of records, records whose summary is the empty string included.         *)
(***************************************************************************)
\* the summaries a record of group g may carry
SummariesOf(g) ==
    {EmptySummary(g), NoRecordsSummary(g), FailedSummary(g), Digest(g, <<TextType>>)}

\* the lists of records given to generate_daily_report
RenderInputs ==
    UNION {{ss \in [1..k -> UNION {{SummaryRecord(g, s, CountText(s.logs)) :
                                        s \in SummariesOf(g)} : g \in 1..MaxSections}] :
               \A i \in 1..k : ss[i].group_name = i} : k \in 0..MaxSections}

RenderInit ==
    /\ tpl_summaries = <<>>
    /\ tpl_content = <<>>

\* content = generate_daily_report(summaries, report_date)
generate_daily_report_call ==
    /\ \E ss \in RenderInputs, d \in Dates, now \in 1..MaxTime :
          /\ tpl_summaries' = ss
          /\ tpl_content' = <<generate_daily_report(ss, d, now)>>
    /\ UNCHANGED <<runVars, files, pagerVars, saved, normVars, sumVars,
                   winVars, proxyVars>>
    /\ UNCHANGED entryVars

RenderNext == generate_daily_report_call

(***************************************************************************)
(* The normalizer: BaseSummarizer._format_messages and                     *)
(* ChatLogExporter.format_messages, one record at a time.  A record is the *)
(* JSON object the upstream sent; every key may be absent and every value  *)
(* may be JSON null.                                                       *)
(***************************************************************************)
None == "<None>"        \* the value None
Absent == "<absent>"    \* the key is not in the dict

\* d.get(key, default) for the value v stored under key
Get(v, default) == IF v = Absent THEN default ELSE v

\* truth value of a str-or-None
Truthy(v) == v \notin {None, ""}

\* str.strip() for the strings of the model
Strip(str) ==
    CASE str = " " -> ""
      [] str = " hi " -> "hi"
      [] str = " k1 " -> "k1"
      [] OTHER -> str

\* how an f-string renders a str-or-None
Str(v) == IF v = None THEN "None" ELSE v

\* values of 'content': text, text in blanks, empty, blanks only, null, no key
ContentValues == {"hi", " hi ", "", " ", None, Absent}

\* values of 'time': "2025-07-04T10:05:32+08:00", "2025-07T10:05:32" (a date
\* of two fields), a string that is no timestamp, null
IsoTime == [tag |-> "iso", date |-> <<"2025", "07", "04">>,
            clock |-> <<"10", "05", "32">>, text |-> "2025-07-04T10:05:32+08:00"]
ShortIsoTime == [tag |-> "iso", date |-> <<"2025", "07">>,
                 clock |-> <<"10", "05", "32">>, text |-> "2025-07T10:05:32"]
RawTime == [tag |-> "raw", date |-> <<>>, clock |-> <<>>, text |-> "yesterday"]
NoTime == [tag |-> "None", date |-> <<>>, clock |-> <<>>, text |-> ""]
TimeValues == {IsoTime, ShortIsoTime, RawTime, NoTime}

\* values of contents['refer']: no key, null, {} or a dict
NoRefer == [tag |-> "absent", senderName |-> Absent, content |-> Absent,
            isSelf |-> FALSE]
ReferValues ==
    {NoRefer,
     [NoRefer EXCEPT !.tag = "None"],
     [NoRefer EXCEPT !.tag = "empty"],
     [tag |-> "dict", senderName |-> "bob", content |-> "before", isSelf |-> FALSE],
     [tag |-> "dict", senderName |-> Absent, content |-> None, isSelf |-> TRUE]}

\* values of 'contents': no key, null, or a dict with title, url and refer
ContentsValues ==
    {[tag |-> "absent", title |-> Absent, url |-> Absent, refer |-> NoRefer],
     [tag |-> "None", title |-> Absent, url |-> Absent, refer |-> NoRefer],
     [tag |-> "dict", title |-> "news", url |-> "http://x", refer |-> NoRefer],
     [tag |-> "dict", title |-> None, url |-> "", refer |-> NoRefer]}
    \cup {[tag |-> "dict", title |-> Absent, url |-> Absent, refer |-> r] :
             r \in ReferValues}

\* the records the normalizer is applied to
RawLogs ==
    [time : TimeValues, senderName : {"alice"}, content : ContentValues,
     type : {TextType, ImageType, LinkType, DefaultType},
     subType : {SubLink, SubRefer, DefaultType},
     contents : ContentsValues, isSelf : BOOLEAN]

\* the outcome of the loop body for one record: a line appended to
\* messages, a `continue`, or an exception
Line(time_str, sender, me, body) ==
    [kind |-> "line", time |-> time_str, sender |-> sender, me |-> me,
     body |-> body, error |-> ""]
Drop == [kind |-> "drop", time |-> <<>>, sender |-> "", me |-> FALSE,
         body |-> <<>>, error |-> ""]
Raise(e) == [kind |-> "raise", time |-> <<>>, sender |-> "", me |-> FALSE,
             body |-> <<>>, error |-> e]

\* the time prefix: "MM-DD HH:MM" in the summarizer (date_part is the date's
\* fields after the first, two of them are used), "YYYY-MM-DD HH:MM" in the
\* exporter (date_part is all the fields, three are used); a string that
\* cannot be split or has too few fields is kept as it is (bare except); a
\* falsy value is not touched and None is printed by the f-string
format_time(t, keep_year) ==
    IF t.tag = "iso"
    THEN LET date_part == IF keep_year THEN t.date ELSE Tail(t.date)
             used == IF keep_year THEN 3 ELSE 2
         IN  IF Len(date_part) >= used
             THEN SubSeq(date_part, 1, used) \o SubSeq(t.clock, 1, 2)
             ELSE <<t.text>>
    ELSE IF t.tag = "raw" THEN <<t.text>>
    ELSE <<"None">>

\* `not formatted_content.strip()` without the strip
IsBlank_unstripped(body) == \A i \in 1..Len(body) : body[i] = ""

\* `not formatted_content.strip()`: the body, a sequence of pieces, is blank
\* when every piece is
IsBlank(body) == \A i \in 1..Len(body) : Strip(body[i]) = ""

\* the last dispatch branch of type 49 without the placeholder
OtherBody_no_placeholder(content) == <<content>>

\* content or "[other message]"
OtherBody(content) == IF Truthy(content) THEN <<content>> ELSE <<"[other message]">>

\* the dispatch on type and subType: the body, a `continue`, or an exception
Dispatch(log) ==
    LET content == Get(log.content, "")
        contents == log.contents
        refer == contents.refer
    IN IF log.type = TextType THEN [kind |-> "body", body |-> <<content>>]
       ELSE IF log.type = ImageType THEN [kind |-> "continue", body |-> <<>>]
       ELSE IF log.type = LinkType
       THEN IF log.subType = SubLink
            THEN IF contents.tag = "None"
                 THEN [kind |-> "AttributeError", body |-> <<>>]
                 ELSE [kind |-> "body",
                       body |-> <<"[share]", Str(Get(contents.title, "")),
                                  IF Truthy(Get(contents.url, ""))
                                  THEN contents.url ELSE "">>]
            ELSE IF log.subType = SubRefer /\ contents.tag = "None"
                 THEN [kind |-> "AttributeError", body |-> <<>>]
            ELSE IF log.subType = SubRefer /\ contents.tag = "dict"
                    /\ refer.tag = "dict"
                 THEN [kind |-> "body",
                       body |-> <<Str(content), "reply",
                                  Str(Get(refer.senderName, "unknown user")),
                                  IF refer.isSelf THEN "[me]" ELSE "",
                                  Str(Get(refer.content, ""))>>]
            ELSE [kind |-> "body", body |-> OtherBody(content)]
       ELSE IF Truthy(content) /\ Truthy(Strip(content))
            THEN [kind |-> "body", body |-> <<content>>]
            ELSE [kind |-> "continue", body |-> <<>>]

\* one iteration of the loop of _format_messages (keep_year FALSE) or of
\* format_messages (keep_year TRUE)
format_one(log, keep_year) ==
    LET d == Dispatch(log)
    IN IF d.kind = "AttributeError" THEN Raise("AttributeError")
       ELSE IF d.kind = "continue" THEN Drop
       ELSE IF d.body = <<None>> THEN Raise("AttributeError")
       ELSE IF IsBlank(d.body) THEN Drop
       ELSE Line(format_time(log.time, keep_year),
                 Get(log.senderName, "unknown user"), log.isSelf, d.body)

\* the outcome of every iteration of the loop over chat_logs
Outcomes(chat_logs, keep_year) ==
    [i \in 1..Len(chat_logs) |-> format_one(chat_logs[i], keep_year)]

IsLine(o) == o.kind = "line"

\* the loop with messages.insert(0, ...) in place of messages.append(...)
FormatAll_reversed(chat_logs, keep_year) ==
    LET outcomes == Outcomes(chat_logs, keep_year)
        lines == SelectSeq(outcomes, IsLine)
    IN IF \E i \in 1..Len(outcomes) : outcomes[i].kind = "raise"
       THEN [kind |-> "raise", lines |-> <<>>]
       ELSE [kind |-> "ok",
             lines |-> [i \in 1..Len(lines) |-> lines[Len(lines) + 1 - i]]]

\* messages = [] ; for log in chat_logs: ... messages.append(...) ;
\* "\n".join(messages): the lines appended, in input order, or the
\* exception of the first record that raises
FormatAll(chat_logs, keep_year) ==
    LET outcomes == Outcomes(chat_logs, keep_year)
    IN IF \E i \in 1..Len(outcomes) : outcomes[i].kind = "raise"
       THEN [kind |-> "raise", lines |-> <<>>]
       ELSE [kind |-> "ok", lines |-> SelectSeq(outcomes, IsLine)]

\* BaseSummarizer._format_messages
Summarizer_format_messages(chat_logs) == FormatAll(chat_logs, FALSE)

\* ChatLogExporter.format_messages putting the newest line first
Exporter_format_messages_newest_first(chat_logs) ==
    FormatAll_reversed(chat_logs, TRUE)

\* ChatLogExporter.format_messages
Exporter_format_messages(chat_logs) == FormatAll(chat_logs, TRUE)

NormInit ==
    /\ norm_log = <<>>
    /\ norm_by = "none"
    /\ norm_out = Drop

\* BaseSummarizer._format_messages([log])
Summarizer_format_one ==
    /\ norm_by = "none"
    /\ \E log \in RawLogs :
          /\ norm_log' = <<log>>
          /\ norm_out' = format_one(log, FALSE)
    /\ norm_by' = "summarizer"
    /\ UNCHANGED <<runVars, files, pagerVars, saved, renderVars, sumVars,
                   winVars, proxyVars>>
    /\ UNCHANGED entryVars

\* ChatLogExporter.format_messages([log])
Exporter_format_one ==
    /\ norm_by = "none"
    /\ \E log \in RawLogs :
          /\ norm_log' = <<log>>
          /\ norm_out' = format_one(log, TRUE)
    /\ norm_by' = "exporter"
    /\ UNCHANGED <<runVars, files, pagerVars, saved, renderVars, sumVars,
                   winVars, proxyVars>>
    /\ UNCHANGED entryVars

NormNext ==
    \/ Summarizer_format_one
    \/ Exporter_format_one

(***************************************************************************)
(* A remote summarizer: OpenAISummarizer.summarize_chat_logs and           *)
(* GeminiSummarizer.summarize_chat_logs, which differ in the client call   *)
(* only.                                                                   *)
(***************************************************************************)
\* a record of the given type and content, sent by alice
SampleLog(type, subType, content) ==
    [time |-> IsoTime, senderName |-> "alice", content |-> content,
     type |-> type, subType |-> subType,
     contents |-> [tag |-> "absent", title |-> Absent, url |-> Absent,
                   refer |-> NoRefer],
     isSelf |-> FALSE]

\* records a group's upstream answer may hold
SampleLogs ==
    {SampleLog(TextType, DefaultType, "hi"),
     SampleLog(TextType, DefaultType, " hi "),
     SampleLog(ImageType, DefaultType, ""),
     SampleLog(LinkType, DefaultType, ""),
     SampleLog(LinkType, DefaultType, " "),
     SampleLog(TextType, DefaultType, None)}

\* a day of 51 text messages
LongLogs == [i \in 1..51 |-> SampleLog(TextType, DefaultType, "hi")]

\* the values of chat_logs
TranscriptLogs == SeqsUpTo(SampleLogs, MaxLines) \cup {LongLogs}

\* response.choices[0].message.content / response.text
ModelTexts == {"summary", " hi ", None}

NoDigest == [kind |-> "none", text |-> "", block |-> <<>>]

SumInit ==
    /\ sum_pc = "idle"
    /\ sum_logs = <<>>
    /\ sum_prompt = <<>>
    /\ sum_reply = ""
    /\ sum_result = NoDigest
    /\ sum_error = NoError

\* summarize_chat_logs up to the client call: the early return for an empty
\* list, _format_messages (outside the try), _build_prompt
summarize_start ==
    /\ sum_pc = "idle"
    /\ \E chat_logs \in TranscriptLogs :
          LET formatted_messages == Summarizer_format_messages(chat_logs)
          IN /\ sum_logs' = chat_logs
             /\ IF chat_logs = <<>>
                THEN /\ sum_pc' = "returned"
                     /\ sum_result' = [kind |-> "placeholder", text |-> "",
                                       block |-> <<>>]
                     /\ UNCHANGED <<sum_prompt, sum_error>>
                ELSE IF formatted_messages.kind = "raise"
                THEN /\ sum_pc' = "raised"
                     /\ sum_error' = "AttributeError"
                     /\ UNCHANGED <<sum_prompt, sum_result>>
                ELSE /\ sum_pc' = "calling"
                     /\ sum_prompt' = Append(sum_prompt, formatted_messages.lines)
                     /\ UNCHANGED <<sum_result, sum_error>>
    /\ UNCHANGED sum_reply
    /\ UNCHANGED <<runVars, files, pagerVars, saved, renderVars, normVars,
                   winVars, proxyVars>>
    /\ UNCHANGED entryVars

\* the client call returns: ai_summary is the stripped text, the value
\* returned is ai_summary + collapsible_section
model_answers ==
    /\ sum_pc = "calling"
    /\ \E text \in ModelTexts :
          /\ sum_reply' = text
          /\ IF text = None
             THEN /\ sum_pc' = "raised"
                  /\ sum_error' = "RuntimeError"
                  /\ UNCHANGED sum_result
             ELSE /\ sum_pc' = "returned"
                  /\ sum_result' =
                        [kind |-> "digest", text |-> Strip(text),
                         block |-> Summarizer_format_messages(sum_logs).lines]
                  /\ UNCHANGED sum_error
    /\ UNCHANGED <<sum_logs, sum_prompt>>
    /\ UNCHANGED <<runVars, files, pagerVars, saved, renderVars, normVars,
                   winVars, proxyVars>>
    /\ UNCHANGED entryVars

\* the client call raises: `except Exception` turns it into RuntimeError
model_call_fails ==
    /\ sum_pc = "calling"
    /\ sum_pc' = "raised"
    /\ sum_error' = "RuntimeError"
    /\ UNCHANGED <<sum_logs, sum_prompt, sum_reply, sum_result>>
    /\ UNCHANGED <<runVars, files, pagerVars, saved, renderVars, normVars,
                   winVars, proxyVars>>
    /\ UNCHANGED entryVars

SumNext ==
    \/ summarize_start
    \/ model_answers
    \/ model_call_fails

(***************************************************************************)
(* The time window of a report date: WeChatAPIClient.get_daily_report_chats *)
(* up to its call of get_chat_logs.  A date is a record [y, m, d] of the   *)
(* proleptic Gregorian calendar, as datetime has it.                       *)
(***************************************************************************)
IsLeap(y) == (y % 4 = 0 /\ y % 100 # 0) \/ y % 400 = 0

DaysIn(y, m) ==
    IF m = 2 THEN (IF IsLeap(y) THEN 29 ELSE 28)
    ELSE IF m \in {4, 6, 9, 11} THEN 30 ELSE 31

\* the dates datetime.strptime(report_date, '%Y-%m-%d') accepts, in the
\* years of the model
ReportDates ==
    {date \in [y : FirstYear..(FirstYear + NumYears - 1), m : 1..12, d : 1..31] :
        date.d <= DaysIn(date.y, date.m)}

\* + timedelta(days=1) on a calendar where every February has 28 days
AddDay_no_leap(date) ==
    IF date.d < (IF date.m = 2 THEN 28 ELSE DaysIn(date.y, date.m))
    THEN [date EXCEPT !.d = date.d + 1]
    ELSE IF date.m < 12 THEN [y |-> date.y, m |-> date.m + 1, d |-> 1]
    ELSE [y |-> date.y + 1, m |-> 1, d |-> 1]

\* report_dt + timedelta(days=1), on the date part
AddDay(date) ==
    IF date.d < DaysIn(date.y, date.m) THEN [date EXCEPT !.d = date.d + 1]
    ELSE IF date.m < 12 THEN [y |-> date.y, m |-> date.m + 1, d |-> 1]
    ELSE [y |-> date.y + 1, m |-> 1, d |-> 1]

\* dt.replace(hour=5, minute=0, second=0, microsecond=0)
AtFive(date) == [date |-> date, hour |-> 5, minute |-> 0, second |-> 0]

\* dt.strftime('%Y-%m-%d %H:%M'): the seconds are not printed
strftime(dt) == <<dt.date.y, dt.date.m, dt.date.d, dt.hour, dt.minute>>

\* the time_range get_daily_report_chats hands to get_chat_logs
DailyWindow(date) ==
    LET start_date == strftime(AtFive(date))
        end_date == strftime(AtFive(AddDay(date)))
    IN IF start_date = end_date
       THEN [start |-> start_date, end |-> start_date, single |-> TRUE]
       ELSE [start |-> start_date, end |-> end_date, single |-> FALSE]

WinInit ==
    /\ win_date = <<>>
    /\ win_range = <<>>

\* get_daily_report_chats(talker, report_date, limit)
get_daily_report_chats_call ==
    /\ win_date = <<>>
    /\ \E date \in ReportDates :
          /\ win_date' = <<date>>
          /\ win_range' = <<DailyWindow(date)>>
    /\ UNCHANGED <<runVars, files, pagerVars, saved, renderVars, normVars,
                   sumVars, proxyVars>>
    /\ UNCHANGED entryVars

WinNext == get_daily_report_chats_call

(***************************************************************************)
(* ProxyManager.proxy_context around a body that returns or raises.        *)
(* os.environ is modelled on the four proxy variables; None stands for a   *)
(* variable that is not set, as os.environ.get reports it.                 *)
(***************************************************************************)
EnvNames == {"HTTP_PROXY", "HTTPS_PROXY", "http_proxy", "https_proxy"}

\* ProxyManager(enabled, http_proxy, https_proxy)
ProxyConfigs ==
    [enabled : BOOLEAN, http_proxy : {None, "http://p"},
     https_proxy : {None, "https://q"}]

\* _set_proxy: the assignments to os.environ
set_proxy(env, config) ==
    [n \in EnvNames |->
        IF n \in {"HTTP_PROXY", "http_proxy"} /\ Truthy(config.http_proxy)
        THEN config.http_proxy
        ELSE IF n \in {"HTTPS_PROXY", "https_proxy"} /\ Truthy(config.https_proxy)
        THEN config.https_proxy
        ELSE env[n]]

\* _clear_proxy removing the four variables
clear_proxy_pop_all(env, original) == [n \in EnvNames |-> None]

\* _clear_proxy: every saved variable is restored, or removed when it was
\* not set
clear_proxy(env, original) ==
    [n \in EnvNames |-> IF n \in DOMAIN original THEN original[n] ELSE env[n]]

ProxyInit ==
    /\ proxy_pc = "outside"
    /\ proxy_config \in ProxyConfigs
    /\ environ \in [EnvNames -> {None, "http://old"}]
    /\ original_env = <<>>
    /\ env_at_entry = environ
    /\ body_outcome = "none"
    /\ proxy_stack = <<>>
    /\ env_before_first = environ

\* `with proxy_context():` up to the yield
proxy_context_enter ==
    /\ proxy_pc \in {"outside", "exited"}
    /\ proxy_pc' = "body"
    /\ env_at_entry' = environ
    /\ body_outcome' = "none"
    /\ IF proxy_config.enabled
       THEN /\ original_env' = [n \in EnvNames |-> environ[n]]
            /\ environ' = set_proxy(environ, proxy_config)
       ELSE UNCHANGED <<original_env, environ>>
    /\ UNCHANGED <<proxy_config, proxy_stack, env_before_first>>
    /\ UNCHANGED <<runVars, files, pagerVars, saved, renderVars, normVars,
                   sumVars, winVars>>
    /\ UNCHANGED entryVars

\* what follows the yield, the same on both ways out of the body: nothing
\* when the proxy is disabled, the finally clause otherwise
AfterBody(outcome) ==
    /\ proxy_pc = "body"
    /\ proxy_pc' = "exited"
    /\ body_outcome' = outcome
    /\ environ' = IF proxy_config.enabled
                  THEN clear_proxy(environ, original_env)
                  ELSE environ
    /\ UNCHANGED <<proxy_config, original_env, env_at_entry, proxy_stack,
                   env_before_first>>
    /\ UNCHANGED <<runVars, files, pagerVars, saved, renderVars, normVars,
                   sumVars, winVars>>
    /\ UNCHANGED entryVars

\* the body of the with statement ends normally
body_returns == AfterBody("returned")

\* the body of the with statement raises
body_raises == AfterBody("raised")

ProxyNext ==
    \/ proxy_context_enter
    \/ body_returns
    \/ body_raises

(***************************************************************************)
(* proxy_context entered while a context of the same manager is active.    *)
(* The contexts are with-blocks, so they exit innermost first; the manager *)
(* has one _original_env, which every entry assigns.                       *)
(***************************************************************************)
\* `with proxy_context():` up to the yield, inside or outside another
\* context of the manager
nested_enter ==
    /\ Len(proxy_stack) < MaxDepth
    /\ proxy_stack' = Append(proxy_stack, "active")
    /\ env_before_first' = IF proxy_stack = <<>> THEN environ
                           ELSE env_before_first
    /\ proxy_pc' = "body"
    /\ env_at_entry' = environ
    /\ body_outcome' = "none"
    /\ IF proxy_config.enabled
       THEN /\ original_env' = [n \in EnvNames |-> environ[n]]
            /\ environ' = set_proxy(environ, proxy_config)
       ELSE UNCHANGED <<original_env, environ>>
    /\ UNCHANGED proxy_config
    /\ UNCHANGED <<runVars, files, pagerVars, saved, renderVars, normVars,
                   sumVars, winVars>>
    /\ UNCHANGED entryVars

\* the innermost active context ends, its body having returned or raised
nested_exit ==
    /\ proxy_stack # <<>>
    /\ proxy_stack' = SubSeq(proxy_stack, 1, Len(proxy_stack) - 1)
    /\ proxy_pc' = IF Len(proxy_stack) = 1 THEN "exited" ELSE "body"
    /\ body_outcome' \in {"returned", "raised"}
    /\ environ' = IF proxy_config.enabled
                  THEN clear_proxy(environ, original_env)
                  ELSE environ
    /\ UNCHANGED <<proxy_config, original_env, env_at_entry, env_before_first>>
    /\ UNCHANGED <<runVars, files, pagerVars, saved, renderVars, normVars,
                   sumVars, winVars>>
    /\ UNCHANGED entryVars

NestNext ==
    \/ nested_enter
    \/ nested_exit

(***************************************************************************)
(* WeChatDailyReporter.__init__ and _load_config (src/main.py) with        *)
(* SummarizerFactory.create_summarizer (src/src/summarizer.py).  An         *)
(* environment value that holds a comma-separated list is the sequence of  *)
(* its segments: "k1, k2" is <<"k1", " k2">> and the empty or unset value  *)
(* is <<"">>.                                                              *)
(***************************************************************************)
\* values of TARGET_GROUPS
GroupLists == {<<"">>, <<" ">>, <<"g1">>, <<"g1", "g2">>}

\* values of OPENAI_API_KEY and GEMINI_API_KEY
KeyLists == {<<"">>, <<" ">>, <<"k1">>, <<" k1 ", "k2">>, <<"", "k2">>}

\* values of AI_SERVICE
ServiceNames == {Absent, "local", "openai", "gemini", "OpenAI", "claude"}

\* values of OPENAI_MODEL and GEMINI_MODEL
ModelNames == {Absent, "", "m"}

Environments ==
    [TARGET_GROUPS : GroupLists, AI_SERVICE : ServiceNames,
     OPENAI_API_KEY : KeyLists, OPENAI_MODEL : ModelNames,
     GEMINI_API_KEY : KeyLists, GEMINI_MODEL : ModelNames]

\* [x.strip() for x in value.split(',') if x.strip()]
SplitStrip(raw) ==
    LET stripped == [i \in 1..Len(raw) |-> Strip(raw[i])]
        NonEmpty(x) == x # ""
    IN  SelectSeq(stripped, NonEmpty)

\* str.lower() for the service names of the model
Lower(str) == IF str = "OpenAI" THEN "openai" ELSE str

\* _load_config: the dictionary self.config
load_config(env) ==
    [target_groups |-> SplitStrip(env.TARGET_GROUPS),
     ai_service |-> Get(env.AI_SERVICE, "local"),
     openai_api_keys |-> SplitStrip(env.OPENAI_API_KEY),
     openai_model |-> Get(env.OPENAI_MODEL, None),
     gemini_api_keys |-> SplitStrip(env.GEMINI_API_KEY),
     gemini_model |-> Get(env.GEMINI_MODEL, None)]

\* the keyword arguments __init__ gives to the factory: api_keys and model
\* are None unless a remote backend is selected
FactoryArgs(config) ==
    IF config.ai_service = "openai"
    THEN [api_keys |-> config.openai_api_keys, model |-> config.openai_model]
    ELSE IF config.ai_service = "gemini"
    THEN [api_keys |-> config.gemini_api_keys, model |-> config.gemini_model]
    ELSE [api_keys |-> <<>>, model |-> None]

\* the validation of __init__ without the two model checks
BackendCheck_no_model_check(config) ==
    IF config.ai_service \in {"openai", "gemini"}
    THEN IF FactoryArgs(config).api_keys = <<>> THEN "ValueError_api_key"
         ELSE NoError
    ELSE IF config.ai_service = "local" THEN NoError
    ELSE "ValueError_unsupported"

\* the validation of __init__: the exception it raises, if any
BackendCheck(config) ==
    IF config.ai_service \in {"openai", "gemini"}
    THEN IF FactoryArgs(config).api_keys = <<>> THEN "ValueError_api_key"
         ELSE IF ~Truthy(FactoryArgs(config).model) THEN "ValueError_model"
         ELSE NoError
    ELSE IF config.ai_service = "local" THEN NoError
    ELSE "ValueError_unsupported"

NoSummarizer == [variant |-> "none", api_key |-> <<>>, model |-> None]

\* the environment value the factory falls back on: os.getenv(name)
FactoryKey(service, env) ==
    IF service = "openai" THEN env.OPENAI_API_KEY ELSE env.GEMINI_API_KEY

\* SummarizerFactory.create_summarizer(service_type, api_keys=, model=,
\* proxy_manager=): kwargs has no 'api_key', so kwargs.get('api_key') is None
\* and the client receives the environment value as it stands
create_summarizer(service_type, kwargs, env) ==
    IF Lower(service_type) \in {"openai", "gemini"}
    THEN IF FactoryKey(Lower(service_type), env) = <<"">>
         THEN [raised |-> "ValueError_key_required", summarizer |-> NoSummarizer]
         ELSE [raised |-> NoError,
               summarizer |-> [variant |-> Lower(service_type),
                               api_key |-> FactoryKey(Lower(service_type), env),
                               model |-> kwargs.model]]
    ELSE IF Lower(service_type) = "local"
    THEN [raised |-> NoError,
          summarizer |-> [variant |-> "local", api_key |-> <<>>, model |-> None]]
    ELSE [raised |-> "ValueError_unsupported", summarizer |-> NoSummarizer]

\* the components __init__ builds, in order
ConstructSteps ==
    <<"load_dotenv", "setup_logging", "load_config", "api_client",
      "proxy_manager", "summarizer", "report_generator",
      "notification_service">>

ConstructInit ==
    /\ cfg_env \in Environments
    /\ ctor_pc = "start"
    /\ ctor_steps = <<>>
    /\ ctor_summarizer = NoSummarizer
    /\ ctor_error = NoError

ConstructIdle ==
    /\ cfg_env = [TARGET_GROUPS |-> <<"g1">>, AI_SERVICE |-> Absent,
                  OPENAI_API_KEY |-> <<"">>, OPENAI_MODEL |-> Absent,
                  GEMINI_API_KEY |-> <<"">>, GEMINI_MODEL |-> Absent]
    /\ ctor_pc = "start"
    /\ ctor_steps = <<>>
    /\ ctor_summarizer = NoSummarizer
    /\ ctor_error = NoError

\* WeChatDailyReporter(config_file): the whole constructor
WeChatDailyReporter_init ==
    /\ ctor_pc = "start"
    /\ LET config == load_config(cfg_env)
           made == create_summarizer(config.ai_service, FactoryArgs(config),
                                     cfg_env)
       IN  IF config.target_groups = <<>>
           THEN /\ ctor_pc' = "raised"
                /\ ctor_error' = "ValueError_target_groups"
                /\ ctor_steps' = SubSeq(ConstructSteps, 1, 2)
                /\ UNCHANGED ctor_summarizer
           ELSE IF BackendCheck(config) # NoError
           THEN /\ ctor_pc' = "raised"
                /\ ctor_error' = BackendCheck(config)
                /\ ctor_steps' = SubSeq(ConstructSteps, 1, 5)
                /\ UNCHANGED ctor_summarizer
           ELSE IF made.raised # NoError
           THEN /\ ctor_pc' = "raised"
                /\ ctor_error' = made.raised
                /\ ctor_steps' = SubSeq(ConstructSteps, 1, 5)
                /\ UNCHANGED ctor_summarizer
           ELSE /\ ctor_pc' = "constructed"
                /\ ctor_error' = NoError
                /\ ctor_steps' = ConstructSteps
                /\ ctor_summarizer' = made.summarizer
    /\ UNCHANGED cfg_env
    /\ UNCHANGED <<runVars, files, pagerVars, saved, renderVars, normVars,
                   sumVars, winVars, proxyVars>>
    /\ UNCHANGED <<localVars, cmpVars, mainVars, exportVars>>

ConstructNext == WeChatDailyReporter_init

(***************************************************************************)
(* LocalSummarizer.summarize_chat_logs (src/src/summarizer.py): counts,    *)
(* senders and keywords of the text records, then the transcript of        *)
(* _format_messages.  No client is called and proxy_context is not         *)
(* entered.                                                                *)
(***************************************************************************)
\* a text record whose senderName is JSON null
NullSenderLog ==
    [SampleLog(TextType, DefaultType, "hi") EXCEPT !.senderName = None]

\* the values of chat_logs given to the Local summarizer
LocalLogs == SeqsUpTo(SampleLogs \cup {NullSenderLog}, MaxLines)

\* the text records, those the statistics loop looks at
IsText(log) == log.type = TextType

\* log.get('content', '').lower() raises on a text record of content None
LowerRaises(chat_logs) ==
    \E i \in 1..Len(chat_logs) :
        IsText(chat_logs[i]) /\ Get(chat_logs[i].content, "") = None

\* the set senders
Senders(chat_logs) ==
    {Get(chat_logs[i].senderName, "unknown") :
        i \in {j \in 1..Len(chat_logs) : IsText(chat_logs[j])}}

\* ', '.join(list(senders)[:10]) raises when a sender is None
JoinRaises(chat_logs) == None \in Senders(chat_logs)

NoLocalResult == [kind |-> "none", senders |-> {}, total_messages |-> 0,
                  block |-> <<>>]

\* the value returned, or the exception
Local_summarize(chat_logs) ==
    IF chat_logs = <<>>
    THEN [raised |-> NoError,
          value |-> [kind |-> "placeholder", senders |-> {},
                     total_messages |-> 0, block |-> <<>>]]
    ELSE IF LowerRaises(chat_logs)
    THEN [raised |-> "AttributeError", value |-> NoLocalResult]
    ELSE IF Summarizer_format_messages(chat_logs).kind = "raise"
    THEN [raised |-> "AttributeError", value |-> NoLocalResult]
    ELSE IF JoinRaises(chat_logs)
    THEN [raised |-> "TypeError", value |-> NoLocalResult]
    ELSE [raised |-> NoError,
          value |-> [kind |-> "summary", senders |-> Senders(chat_logs),
                     total_messages |-> Len(SelectSeq(chat_logs, IsText)),
                     block |-> Summarizer_format_messages(chat_logs).lines]]

LocalInit ==
    /\ loc_pc = "idle"
    /\ loc_logs = <<>>
    /\ loc_result = NoLocalResult
    /\ loc_error = NoError

\* LocalSummarizer.summarize_chat_logs(chat_logs, group_name)
Local_summarize_chat_logs ==
    /\ loc_pc = "idle"
    /\ \E chat_logs \in LocalLogs :
          LET out == Local_summarize(chat_logs)
          IN /\ loc_logs' = chat_logs
             /\ loc_pc' = IF out.raised = NoError THEN "returned" ELSE "raised"
             /\ loc_result' = out.value
             /\ loc_error' = out.raised
    /\ UNCHANGED <<runVars, files, pagerVars, saved, renderVars, normVars,
                   sumVars, winVars, proxyVars>>
    /\ UNCHANGED <<constructVars, cmpVars, mainVars, exportVars>>

LocalNext == Local_summarize_chat_logs

(***************************************************************************)
(* The two normalizers on the same record list: what                       *)
(* BaseSummarizer._format_messages and ChatLogExporter.format_messages     *)
(* make of it.                                                             *)
(***************************************************************************)
\* the record lists both normalizers are given: every single record, and
\* the short lists of sample records
CompareLogs ==
    {<<log>> : log \in RawLogs} \cup SeqsUpTo(SampleLogs, MaxLines)

CompareInit ==
    /\ cmp_logs = <<>>
    /\ cmp_summarizer = [kind |-> "none", lines |-> <<>>]
    /\ cmp_exporter = [kind |-> "none", lines |-> <<>>]

\* summarizer._format_messages(chat_logs) and
\* exporter.format_messages(chat_logs) for one list
format_both ==
    /\ cmp_summarizer.kind = "none"
    /\ \E chat_logs \in CompareLogs :
          /\ cmp_logs' = chat_logs
          /\ cmp_summarizer' = Summarizer_format_messages(chat_logs)
          /\ cmp_exporter' = Exporter_format_messages(chat_logs)
    /\ UNCHANGED <<runVars, files, pagerVars, saved, renderVars, normVars,
                   sumVars, winVars, proxyVars>>
    /\ UNCHANGED <<constructVars, localVars, mainVars, exportVars>>

CompareNext == format_both

(***************************************************************************)
(* Date arguments (parse_date_range of src/main.py and of                  *)
(* src/export_chat_logs.py).  A date string is the sequence of its fields  *)
(* between the dashes and a field is the sequence of its digits:           *)
(* "2025-01-05" is <<<<2,0,2,5>>, <<0,1>>, <<0,5>>>>, "2025-1-5" is         *)
(* <<<<2,0,2,5>>, <<1>>, <<5>>>> and "" is <<<<>>>>.  The value of --date   *)
(* is the sequence of the date strings around its colon; <<>> stands for   *)
(* an option that was not given.                                           *)
(***************************************************************************)
YearField == <<2, 0, 2, 5>>

\* day d of January, zero-padded as strftime writes it, or not
DateText(d, padded) ==
    <<YearField, IF padded THEN <<0, 1>> ELSE <<1>>,
      IF padded THEN <<0, d>> ELSE <<d>>>>

\* "2025-13-01"
BadMonthText == <<YearField, <<1, 3>>, <<0, 1>>>>

\* ""
EmptyText == << <<>> >>

Days == 1..NumDays

\* the dates a user may write
DateTexts == {DateText(d, p) : d \in Days, p \in BOOLEAN} \cup {BadMonthText}

\* the values of args.date
DateArgs ==
    {<<>>, <<EmptyText>>} \cup {<<s>> : s \in DateTexts}
        \cup {<<s, e>> : s \in DateTexts, e \in DateTexts}

\* the number a field of one to four digits denotes
RECURSIVE Num(_)
Num(digits) ==
    IF digits = <<>> THEN 0
    ELSE 10 * Num(SubSeq(digits, 1, Len(digits) - 1)) + digits[Len(digits)]

\* datetime.strptime(str, '%Y-%m-%d'): four digits, one or two, one or two,
\* naming a day of the calendar; ValueError otherwise
strptime(str) ==
    IF /\ Len(str) = 3
       /\ Len(str[1]) = 4
       /\ Len(str[2]) \in 1..2 /\ Num(str[2]) \in 1..12
       /\ Len(str[3]) \in 1..2
       /\ Num(str[3]) \in 1..DaysIn(Num(str[1]), Num(str[2]))
    THEN [ok |-> TRUE, y |-> Num(str[1]), m |-> Num(str[2]), d |-> Num(str[3])]
    ELSE [ok |-> FALSE, y |-> 0, m |-> 0, d |-> 0]

\* datetime comparison a > b
DateAfter(a, b) ==
    \/ a.y > b.y
    \/ a.y = b.y /\ a.m > b.m
    \/ a.y = b.y /\ a.m = b.m /\ a.d > b.d

\* the characters of a date string, as code points: the fields' digits
\* with a '-' (45, below '0' = 48) between two fields
RECURSIVE Chars(_)
Chars(str) ==
    IF str = <<>> THEN <<>>
    ELSE IF Len(str) = 1 THEN [i \in 1..Len(str[1]) |-> 48 + str[1][i]]
    ELSE [i \in 1..Len(str[1]) |-> 48 + str[1][i]] \o <<45>> \o Chars(Tail(str))

\* str comparison a > b: the first differing character decides, a proper
\* prefix is smaller
StrAfter(a, b) ==
    \E i \in 1..Len(a) :
        /\ \A j \in 1..(i - 1) : j <= Len(b) /\ a[j] = b[j]
        /\ i > Len(b) \/ a[i] > b[i]

\* the dates from a to b of one month, as strftime('%Y-%m-%d') writes them
DatesFromTo(a, b) == [i \in 1..(b.d - a.d + 1) |-> DateText(a.d + i - 1, TRUE)]

\* parse_date_range of main.py: the list of dates, or ValueError.  The
\* range compares the parsed dates; the single date is returned as written
Main_parse_date_range(arg) ==
    IF Len(arg) = 2
    THEN LET start_date == strptime(arg[1])
             end_date == strptime(arg[2])
         IN  IF ~start_date.ok \/ ~end_date.ok
             THEN [raised |-> "ValueError", dates |-> <<>>]
             ELSE IF DateAfter(start_date, end_date)
             THEN [raised |-> "ValueError", dates |-> <<>>]
             ELSE [raised |-> NoError,
                   dates |-> DatesFromTo(start_date, end_date)]
    ELSE IF ~strptime(arg[1]).ok
         THEN [raised |-> "ValueError", dates |-> <<>>]
         ELSE [raised |-> NoError, dates |-> <<arg[1]>>]

\* parse_date_range of export_chat_logs.py: (start_date, end_date), or
\* ValueError.  Both strings are validated with strptime and then compared
\* as strings
Exporter_parse_date_range(arg) ==
    LET start_date == arg[1]
        end_date == arg[Len(arg)]
    IN  IF ~strptime(start_date).ok \/ ~strptime(end_date).ok
        THEN [raised |-> "ValueError", range |-> <<>>]
        ELSE IF StrAfter(Chars(start_date), Chars(end_date))
        THEN [raised |-> "ValueError", range |-> <<>>]
        ELSE [raised |-> NoError, range |-> <<start_date, end_date>>]

(***************************************************************************)
(* main() of src/main.py for a reporter that was constructed: the default  *)
(* run, the single date, the loop over a range.  run_daily_report is one   *)
(* step here; what it can do is what the daily-report run above does.      *)
(***************************************************************************)
\* datetime.now() - 1 day, the default report date
Yesterday == DateText(1, TRUE)

\* how a call of run_daily_report that is not skipped ends: the probe
\* fails, a summarizer call fails, or the combined file is written and then
\* save_group_reports is looked up
RunOutcomes ==
    {"unavailable", "summarizer_failed"}
        \cup (IF "save_group_reports" \in ReportGeneratorMethods
              THEN {"returned"} ELSE {"saved_then_raised"})

Event(op, date) == [op |-> op, date |-> date]

\* what a call ending with the given outcome did, in order
RunEvents(date, outcome) ==
    <<Event("health_check", date)>>
    \o (IF outcome = "unavailable" THEN <<>>
        ELSE <<Event("get_chat_logs", date), Event("summarize", date)>>)
    \o (IF outcome \in {"saved_then_raised", "returned"}
        THEN <<Event("save_report", date)>> ELSE <<>>)
    \o (IF outcome = "returned" THEN <<Event("notify", date)>> ELSE <<>>)

\* os.path.exists(reports/wechat_daily_report_<date>.md)
ReportExists(fs, date) == date \in DOMAIN fs

\* save_report: the file of the date holds the new content
WriteReport(fs, date, content) ==
    [p \in DOMAIN fs \cup {date} |-> IF p = date THEN content ELSE fs[p]]

\* the files after a call ending with the given outcome
RunFiles(fs, date, outcome) ==
    IF outcome \in {"saved_then_raised", "returned"}
    THEN WriteReport(fs, date, "new")
    ELSE fs

MainInit ==
    /\ m_pc = "start"
    /\ m_arg \in DateArgs
    /\ m_existing \in SUBSET {DateText(d, TRUE) : d \in Days}
    /\ m_files = [p \in m_existing |-> "old"]
    /\ m_dates = <<>>
    /\ m_idx = 0
    /\ m_events = <<>>
    /\ m_outcomes = <<>>
    /\ m_generated = 0
    /\ m_skipped = 0
    /\ m_exit = -1

MainIdle ==
    /\ m_pc = "start"
    /\ m_arg = <<>>
    /\ m_existing = {}
    /\ m_files = <<>>
    /\ m_dates = <<>>
    /\ m_idx = 0
    /\ m_events = <<>>
    /\ m_outcomes = <<>>
    /\ m_generated = 0
    /\ m_skipped = 0
    /\ m_exit = -1

\* `if args.date:` and parse_date_range: a falsy value takes the default
\* branch, a ValueError returns 1, one date takes the single-date branch
main_parse ==
    /\ m_pc = "start"
    /\ IF m_arg \in {<<>>, <<EmptyText>>}
       THEN /\ m_dates' = <<Yesterday>>
            /\ m_pc' = "single"
            /\ UNCHANGED m_exit
       ELSE LET parsed == Main_parse_date_range(m_arg)
            IN  IF parsed.raised # NoError
                THEN /\ m_dates' = <<>>
                     /\ m_pc' = "done"
                     /\ m_exit' = 1
                ELSE /\ m_dates' = parsed.dates
                     /\ m_pc' = IF Len(parsed.dates) = 1 THEN "single"
                                ELSE "range"
                     /\ UNCHANGED m_exit
    /\ m_idx' = 1
    /\ UNCHANGED <<m_arg, m_existing, m_files, m_events, m_outcomes,
                   m_generated, m_skipped>>
    /\ UNCHANGED <<runVars, files, pagerVars, saved, renderVars, normVars,
                   sumVars, winVars, proxyVars>>
    /\ UNCHANGED <<constructVars, localVars, cmpVars, exportVars>>

\* the single-date branch skipping a date whose file exists
main_single_skipping ==
    /\ m_pc = "single"
    /\ \E outcome \in RunOutcomes :
          IF ReportExists(m_files, m_dates[1])
          THEN /\ UNCHANGED <<m_events, m_files>>
               /\ m_outcomes' = Append(m_outcomes,
                                       [date |-> m_dates[1], how |-> "skipped"])
               /\ m_exit' = 0
          ELSE /\ m_events' = m_events \o RunEvents(m_dates[1], outcome)
               /\ m_files' = RunFiles(m_files, m_dates[1], outcome)
               /\ m_outcomes' =
                     Append(m_outcomes,
                            [date |-> m_dates[1],
                             how |-> IF outcome = "returned" THEN "generated"
                                     ELSE "failed"])
               /\ m_exit' = IF outcome = "returned" THEN 0 ELSE 1
    /\ m_pc' = "done"
    /\ m_idx' = 2
    /\ UNCHANGED <<m_arg, m_existing, m_dates, m_generated, m_skipped>>
    /\ UNCHANGED <<runVars, files, pagerVars, saved, renderVars, normVars,
                   sumVars, winVars, proxyVars>>
    /\ UNCHANGED <<constructVars, localVars, cmpVars, exportVars>>

\* reporter.run_daily_report(dates[0], skip_existing=False), or
\* run_daily_report() for yesterday: the file is not looked at; an
\* exception reaches the outer handler, which returns 1
main_single ==
    /\ m_pc = "single"
    /\ \E outcome \in RunOutcomes :
          /\ m_events' = m_events \o RunEvents(m_dates[1], outcome)
          /\ m_files' = RunFiles(m_files, m_dates[1], outcome)
          /\ m_outcomes' =
                Append(m_outcomes,
                       [date |-> m_dates[1],
                        how |-> IF outcome = "returned" THEN "generated"
                                ELSE "failed"])
          /\ m_exit' = IF outcome = "returned" THEN 0 ELSE 1
    /\ m_pc' = "done"
    /\ m_idx' = 2
    /\ UNCHANGED <<m_arg, m_existing, m_dates, m_generated, m_skipped>>
    /\ UNCHANGED <<runVars, files, pagerVars, saved, renderVars, normVars,
                   sumVars, winVars, proxyVars>>
    /\ UNCHANGED <<constructVars, localVars, cmpVars, exportVars>>

\* an iteration of the range loop for a date whose file exists:
\* skipped_count += 1 ; continue
range_skip ==
    /\ m_pc = "range"
    /\ m_idx <= Len(m_dates)
    /\ ReportExists(m_files, m_dates[m_idx])
    /\ m_skipped' = m_skipped + 1
    /\ m_outcomes' = Append(m_outcomes,
                            [date |-> m_dates[m_idx], how |-> "skipped"])
    /\ m_idx' = m_idx + 1
    /\ UNCHANGED <<m_pc, m_arg, m_existing, m_dates, m_files, m_events,
                   m_generated, m_exit>>
    /\ UNCHANGED <<runVars, files, pagerVars, saved, renderVars, normVars,
                   sumVars, winVars, proxyVars>>
    /\ UNCHANGED <<constructVars, localVars, cmpVars, exportVars>>

\* the iteration with a failure ending the loop
range_run_aborting ==
    /\ m_pc = "range"
    /\ m_idx <= Len(m_dates)
    /\ ~ReportExists(m_files, m_dates[m_idx])
    /\ \E outcome \in RunOutcomes :
          /\ m_events' = m_events \o RunEvents(m_dates[m_idx], outcome)
          /\ m_files' = RunFiles(m_files, m_dates[m_idx], outcome)
          /\ IF outcome = "returned"
             THEN /\ m_generated' = m_generated + 1
                  /\ m_outcomes' = Append(m_outcomes,
                                          [date |-> m_dates[m_idx],
                                           how |-> "generated"])
                  /\ m_idx' = m_idx + 1
             ELSE /\ UNCHANGED m_generated
                  /\ m_outcomes' = Append(m_outcomes,
                                          [date |-> m_dates[m_idx],
                                           how |-> "failed"])
                  /\ m_idx' = Len(m_dates) + 1
    /\ UNCHANGED <<m_pc, m_arg, m_existing, m_dates, m_skipped, m_exit>>
    /\ UNCHANGED <<runVars, files, pagerVars, saved, renderVars, normVars,
                   sumVars, winVars, proxyVars>>
    /\ UNCHANGED <<constructVars, localVars, cmpVars, exportVars>>

\* an iteration of the range loop for a date without a file:
\* run_daily_report(date, skip_existing=True), then generated_count += 1;
\* `except Exception` prints the failure and the loop goes on
range_run ==
    /\ m_pc = "range"
    /\ m_idx <= Len(m_dates)
    /\ ~ReportExists(m_files, m_dates[m_idx])
    /\ \E outcome \in RunOutcomes :
          /\ m_events' = m_events \o RunEvents(m_dates[m_idx], outcome)
          /\ m_files' = RunFiles(m_files, m_dates[m_idx], outcome)
          /\ IF outcome = "returned"
             THEN /\ m_generated' = m_generated + 1
                  /\ m_outcomes' = Append(m_outcomes,
                                          [date |-> m_dates[m_idx],
                                           how |-> "generated"])
             ELSE /\ UNCHANGED m_generated
                  /\ m_outcomes' = Append(m_outcomes,
                                          [date |-> m_dates[m_idx],
                                           how |-> "failed"])
    /\ m_idx' = m_idx + 1
    /\ UNCHANGED <<m_pc, m_arg, m_existing, m_dates, m_skipped, m_exit>>
    /\ UNCHANGED <<runVars, files, pagerVars, saved, renderVars, normVars,
                   sumVars, winVars, proxyVars>>
    /\ UNCHANGED <<constructVars, localVars, cmpVars, exportVars>>

\* the loop is over: the summary line, then `return 0`
range_end ==
    /\ m_pc = "range"
    /\ m_idx > Len(m_dates)
    /\ m_pc' = "done"
    /\ m_exit' = 0
    /\ UNCHANGED <<m_arg, m_existing, m_dates, m_idx, m_files, m_events,
                   m_outcomes, m_generated, m_skipped>>
    /\ UNCHANGED <<runVars, files, pagerVars, saved, renderVars, normVars,
                   sumVars, winVars, proxyVars>>
    /\ UNCHANGED <<constructVars, localVars, cmpVars, exportVars>>

MainNext ==
    \/ main_parse
    \/ main_single
    \/ range_skip
    \/ range_run
    \/ range_end

(***************************************************************************)
(* main() of src/export_chat_logs.py with --date.                          *)
(***************************************************************************)
\* the values of --date of the exporter
ExportArgs == DateArgs \ {<<>>}

ExportInit ==
    /\ xm_pc = "start"
    /\ xm_arg \in ExportArgs
    /\ xm_range = <<>>
    /\ xm_events = <<>>
    /\ xm_exit = -1

ExportIdle ==
    /\ xm_pc = "start"
    /\ xm_arg = <<EmptyText>>
    /\ xm_range = <<>>
    /\ xm_events = <<>>
    /\ xm_exit = -1

\* `if args.date: start_date, end_date = parse_date_range(args.date)`: a
\* ValueError returns 1; after an empty --date the names are unbound and the
\* first use raises, which returns 1
exporter_parse ==
    /\ xm_pc = "start"
    /\ IF xm_arg = <<EmptyText>>
       THEN /\ xm_pc' = "done"
            /\ xm_exit' = 1
            /\ UNCHANGED xm_range
       ELSE LET parsed == Exporter_parse_date_range(xm_arg)
            IN  IF parsed.raised # NoError
                THEN /\ xm_pc' = "done"
                     /\ xm_exit' = 1
                     /\ UNCHANGED xm_range
                ELSE /\ xm_pc' = "export"
                     /\ xm_range' = parsed.range
                     /\ UNCHANGED xm_exit
    /\ UNCHANGED <<xm_arg, xm_events>>
    /\ UNCHANGED <<runVars, files, pagerVars, saved, renderVars, normVars,
                   sumVars, winVars, proxyVars>>
    /\ UNCHANGED <<constructVars, localVars, cmpVars, mainVars>>

\* exporter.export_chat_logs(group, start_date, end_date): the paged
\* retrieval, then the file when there are records; no records, or an
\* exception, returns 1
exporter_export ==
    /\ xm_pc = "export"
    /\ \E found \in BOOLEAN :
          /\ xm_events' = xm_events
                \o <<[op |-> "get_chat_logs", start |-> xm_range[1],
                      end |-> xm_range[2]]>>
                \o (IF found
                    THEN <<[op |-> "save_report", start |-> xm_range[1],
                            end |-> xm_range[2]]>>
                    ELSE <<>>)
          /\ xm_exit' = IF found THEN 0 ELSE 1
    /\ xm_pc' = "done"
    /\ UNCHANGED <<xm_arg, xm_range>>
    /\ UNCHANGED <<runVars, files, pagerVars, saved, renderVars, normVars,
                   sumVars, winVars, proxyVars>>
    /\ UNCHANGED <<constructVars, localVars, cmpVars, mainVars>>

ExportNext ==
    \/ exporter_parse
    \/ exporter_export

(***************************************************************************)
(* Specifications.  Each one runs one part of the program and leaves the   *)
(* variables of the other parts at their initial values.                   *)
(***************************************************************************)
RunIdle ==
    /\ max_messages_per_group = 1
    /\ pc = "idle"
    /\ report_date = 0
    /\ gi = 0
    /\ summaries = <<>>
    /\ upstream = [g \in Groups |-> <<>>]
    /\ requests = <<>>
    /\ summarizer_calls = <<>>
    /\ group_files = {}
    /\ notifications = <<>>
    /\ result = NoResult
    /\ error = NoError

ProxyIdle ==
    /\ proxy_pc = "outside"
    /\ proxy_config = [enabled |-> FALSE, http_proxy |-> None, https_proxy |-> None]
    /\ environ = [n \in EnvNames |-> None]
    /\ original_env = <<>>
    /\ env_at_entry = environ
    /\ body_outcome = "none"
    /\ proxy_stack = <<>>
    /\ env_before_first = environ

\* the entry points and the stand-alone functions at rest
EntryIdle ==
    /\ ConstructIdle /\ LocalInit /\ CompareInit /\ MainIdle /\ ExportIdle

\* the daily-report run, the pager, the persistence, the rendering, the
\* normalizer, the remote summarizer, the window and the proxy at rest
CoreIdle ==
    /\ RunIdle /\ SaveInit /\ PagerInit
    /\ RenderInit /\ NormInit /\ SumInit /\ WinInit /\ ProxyIdle

Init ==
    /\ RunInit /\ PagerInit /\ saved = <<>>
    /\ RenderInit /\ NormInit /\ SumInit /\ WinInit /\ ProxyIdle
    /\ EntryIdle
Next == RunNext
Spec == Init /\ [][Next]_vars

PagerSpecInit ==
    /\ PagerInit /\ RunIdle /\ SaveInit
    /\ RenderInit /\ NormInit /\ SumInit /\ WinInit /\ ProxyIdle
    /\ EntryIdle
PagerSpecNext == PagerNext
PagerSpec == PagerSpecInit /\ [][PagerSpecNext]_vars
\* every request returns or fails within the client's timeout, so an
\* iteration that has started completes
PagerFairSpec == PagerSpec /\ WF_vars(Exporter_iteration)

SaveSpecInit ==
    /\ SaveInit /\ RunIdle /\ PagerInit
    /\ RenderInit /\ NormInit /\ SumInit /\ WinInit /\ ProxyIdle
    /\ EntryIdle
SaveSpecNext == SaveNext
SaveSpec == SaveSpecInit /\ [][SaveSpecNext]_vars

RenderSpecInit ==
    /\ RenderInit /\ RunIdle /\ SaveInit /\ PagerInit
    /\ NormInit /\ SumInit /\ WinInit /\ ProxyIdle
    /\ EntryIdle
RenderSpecNext == RenderNext
RenderSpec == RenderSpecInit /\ [][RenderSpecNext]_vars

NormSpecInit ==
    /\ NormInit /\ RunIdle /\ SaveInit /\ PagerInit
    /\ RenderInit /\ SumInit /\ WinInit /\ ProxyIdle
    /\ EntryIdle
NormSpecNext == NormNext
NormSpec == NormSpecInit /\ [][NormSpecNext]_vars

SumSpecInit ==
    /\ SumInit /\ RunIdle /\ SaveInit /\ PagerInit
    /\ RenderInit /\ NormInit /\ WinInit /\ ProxyIdle
    /\ EntryIdle
SumSpecNext == SumNext
SumSpec == SumSpecInit /\ [][SumSpecNext]_vars

WinSpecInit ==
    /\ WinInit /\ RunIdle /\ SaveInit /\ PagerInit
    /\ RenderInit /\ NormInit /\ SumInit /\ ProxyIdle
    /\ EntryIdle
WinSpecNext == WinNext
WinSpec == WinSpecInit /\ [][WinSpecNext]_vars

ProxySpecInit ==
    /\ ProxyInit /\ RunIdle /\ SaveInit /\ PagerInit
    /\ RenderInit /\ NormInit /\ SumInit /\ WinInit
    /\ EntryIdle
ProxySpecNext == ProxyNext
ProxySpec == ProxySpecInit /\ [][ProxySpecNext]_vars

NestSpecInit ==
    /\ ProxyInit /\ RunIdle /\ SaveInit /\ PagerInit
    /\ RenderInit /\ NormInit /\ SumInit /\ WinInit
    /\ EntryIdle
NestSpecNext == NestNext
NestSpec == NestSpecInit /\ [][NestSpecNext]_vars

ConstructSpecInit ==
    /\ ConstructInit /\ CoreIdle
    /\ LocalInit /\ CompareInit /\ MainIdle /\ ExportIdle
ConstructSpecNext == ConstructNext
ConstructSpec == ConstructSpecInit /\ [][ConstructSpecNext]_vars

LocalSpecInit ==
    /\ LocalInit /\ CoreIdle
    /\ ConstructIdle /\ CompareInit /\ MainIdle /\ ExportIdle
LocalSpecNext == LocalNext
LocalSpec == LocalSpecInit /\ [][LocalSpecNext]_vars

CompareSpecInit ==
    /\ CompareInit /\ CoreIdle
    /\ ConstructIdle /\ LocalInit /\ MainIdle /\ ExportIdle
CompareSpecNext == CompareNext
CompareSpec == CompareSpecInit /\ [][CompareSpecNext]_vars

MainSpecInit ==
    /\ MainInit /\ CoreIdle
    /\ ConstructIdle /\ LocalInit /\ CompareInit /\ ExportIdle
MainSpecNext == MainNext
MainSpec == MainSpecInit /\ [][MainSpecNext]_vars

ExportSpecInit ==
    /\ ExportInit /\ CoreIdle
    /\ ConstructIdle /\ LocalInit /\ CompareInit /\ MainIdle
ExportSpecNext == ExportNext
ExportSpec == ExportSpecInit /\ [][ExportSpecNext]_vars

(***************************************************************************)
(* Properties of the daily-report run (specification Spec).                *)
(***************************************************************************)
CombinedFileWritten == ReportPath(report_date) \in DOMAIN files

\* C1: when the summarizer call raises for a group that has records,
\* run_daily_report raises: the chat-log requests of that run are those of
\* the groups up to the failing one and no more, the failing call is the
\* last summarizer call, no combined report file is written, no per-group
\* file is written and no notification sink is invoked.
C1_SummarizerFailureAborts ==
    error = "RuntimeError_summarizer" =>
        /\ pc = "raised"
        /\ result = NoResult
        /\ Len(requests) = gi
        /\ \A i \in 1..Len(requests) : requests[i].talker = i
        /\ summarizer_calls # <<>>
        /\ summarizer_calls[Len(summarizer_calls)].group = gi
        /\ Len(summaries) = gi - 1
        /\ files = <<>>
        /\ group_files = {}
        /\ notifications = <<>>

\* a run aborted by the summarizer while a later group was still to come
C1_Witness ==
    /\ error = "RuntimeError_summarizer"
    /\ pc = "raised"
    /\ gi < NumGroups

\* C2: a chat-log request that fails in transport does not abort the run:
\* the step that issues it appends for that group the record with
\* message_count 0 and the no-records placeholder, raises nothing and
\* leaves the loop at the next configured group.
C2_TransportFailureDegrades ==
    [][(Len(requests') = Len(requests) + 1
        /\ requests'[Len(requests')].answer = "transport")
       => /\ pc' = "loop"
          /\ error' = NoError
          /\ gi' = gi + 1
          /\ Len(summaries') = Len(summaries) + 1
          /\ summaries'[Len(summaries')].group_name = gi
          /\ summaries'[Len(summaries')].message_count = 0
          /\ summaries'[Len(summaries')].summary.kind = "no_records"
          /\ SubSeq(summaries', 1, Len(summaries)) = summaries]_vars

\* a transport failure for a group, followed by the summary of a later group
C2_Witness ==
    \E i \in 1..Len(requests) : \E j \in 1..Len(summaries) :
        /\ i < j
        /\ requests[i].answer = "transport"
        /\ summaries[i].summary.kind = "no_records"
        /\ summaries[j].summary.kind = "digest"

RunOver == pc \in {"raised", "returned"}

\* C3 (as claimed): every run in which the liveness probe succeeds and no
\* summarizer call fails ends by returning the path of the combined report
\* file, with the combined file and the per-group files written and the
\* sinks invoked; no sink is invoked before the combined file is written.
C3_RunCompletes ==
    /\ (RunOver /\ error \notin {"RuntimeError_unavailable",
                                 "RuntimeError_summarizer"})
          => /\ pc = "returned"
             /\ result = ReportPath(report_date)
             /\ CombinedFileWritten
             /\ group_files # {}
             /\ notifications # <<>>
    /\ notifications # <<>> => CombinedFileWritten

C8_AllRecordsSummarized ==
    \A i \in 1..Len(summarizer_calls) :
        summarizer_calls[i].logs = upstream[summarizer_calls[i].group]

\* C8 (amended): each group is fetched by exactly one request, with offset 0
\* and limit max_messages_per_group, and the records handed to the
\* summarizer are the answer to that request: the upstream's first
\* min(n, max_messages_per_group) records, in order, and none beyond.
C8_FirstLimitRecordsSummarized ==
    /\ \A i \in 1..Len(requests) :
          /\ requests[i].talker = i
          /\ requests[i].offset = 0
          /\ requests[i].limit = max_messages_per_group
    /\ \A i \in 1..Len(summarizer_calls) :
          LET g == summarizer_calls[i].group
              logs == summarizer_calls[i].logs
          IN /\ Len(logs) = Min(Len(upstream[g]), max_messages_per_group)
             /\ \A j \in 1..Len(logs) : logs[j] = upstream[g][j]
             /\ \E k \in 1..Len(requests) : requests[k].talker = g
                                             /\ requests[k].answer = "ok"

\* a group with more records upstream than the limit, summarized from the
\* first max_messages_per_group of them
C8_Witness ==
    \E i \in 1..Len(summarizer_calls) :
        /\ Len(upstream[summarizer_calls[i].group]) > max_messages_per_group
        /\ Len(summarizer_calls[i].logs) = max_messages_per_group
        /\ pc = "group_reports"

\* number of text records of a record sequence
TextCount(logs) == Cardinality({j \in 1..Len(logs) : logs[j] = 1})

\* C10: the report's group count is the number of records, one per
\* configured group, and its message total is the sum of the records'
\* message_count; a record's message_count is the number of text records of
\* its group (images add nothing) and a group without records has count 0
\* and the no-records placeholder as its whole section.
C10_ReportCounters ==
    /\ \A i \in 1..Len(summaries) :
          /\ summaries[i].group_name = i
          /\ summaries[i].message_count = TextCount(summaries[i].summary.logs)
          /\ summaries[i].summary.kind # "digest"
                => (summaries[i].message_count = 0
                    /\ summaries[i].summary.logs = <<>>)
    /\ CombinedFileWritten =>
          LET content == files[ReportPath(report_date)][1]
          IN /\ Len(summaries) = NumGroups
             /\ content.total_groups = Len(summaries)
             /\ content.total_messages =
                   Cardinality(UNION {{<<i, j>> : j \in {k \in 1..Len(summaries[i].summary.logs) :
                                                            summaries[i].summary.logs[k] = 1}} :
                                      i \in 1..Len(summaries)})
             /\ Len(content.sections) = Len(summaries)
             /\ \A i \in 1..Len(summaries) :
                   content.sections[i].body = summaries[i].summary

\* the report of a first group with three texts and one image and of other
\* groups without records: the total is 3
C10_Witness ==
    /\ CombinedFileWritten
    /\ summaries[1].summary.logs = <<1, 1, 1, 3>>
    /\ \A i \in 2..Len(summaries) : summaries[i].summary.kind = "no_records"
    /\ files[ReportPath(report_date)][1].total_groups = NumGroups
    /\ files[ReportPath(report_date)][1].total_messages = 3

\* C13: all along the group loop the list summaries holds exactly one
\* record per group already processed, in configured group order; a loop
\* iteration that does not abort the run (no records, summarized, or a
\* processing error other than the summarizer's) appends exactly one record,
\* the record of its group, and no step changes or removes a record that is
\* already in the list.
C13_OneRecordPerProcessedGroup ==
    /\ [](gi >= 1 => /\ Len(summaries) = gi - 1
                     /\ \A i \in 1..Len(summaries) : summaries[i].group_name = i)
    /\ [][/\ SubSeq(summaries', 1, Len(summaries)) = summaries
          /\ Len(summaries') >= Len(summaries)
          /\ (gi >= 1 /\ gi' = gi + 1)
                => /\ Len(summaries') = Len(summaries) + 1
                   /\ summaries'[Len(summaries')].group_name = gi
                   /\ summaries'[Len(summaries')].summary.kind
                         \in {"no_records", "digest", "failed"}
          /\ gi' = gi => summaries' = summaries]_vars

\* the loop is over: the first group failed in processing, the last one was
\* summarized
C13_Witness ==
    /\ pc = "loop"
    /\ gi = NumGroups + 1
    /\ Len(summaries) = NumGroups
    /\ summaries[1].summary.kind = "failed"
    /\ summaries[NumGroups].summary.kind = "digest"

(***************************************************************************)
(* Properties of the exporter's pager (specifications PagerSpec and        *)
(* PagerFairSpec).                                                         *)
(***************************************************************************)
\* a page after which the paging stops: empty, shorter than the page size,
\* or not a page at all
Short(page) ==
    \/ page.kind \notin {"list", "dict"}
    \/ Len(page.logs) = 0
    \/ Len(page.logs) < ex_limit

RECURSIVE ConcatLogs(_)
ConcatLogs(pages) ==
    IF pages = <<>> THEN <<>> ELSE Head(pages).logs \o ConcatLogs(Tail(pages))

\* C5: the requests carry the offsets 0, P, 2P, ... in order; the pages are
\* appended in the order returned; the paging goes on after a page of at
\* least P records and stops right after the first page that is empty or
\* shorter than P; k full pages and a short page of r records make k+1
\* requests and k*P+r records, in upstream order.
C5_PagerProtocol ==
    ~ex_trunc =>
        /\ Len(ex_pages) = Len(ex_requests)
        /\ \A i \in 1..Len(ex_requests) : ex_requests[i] = (i - 1) * ex_limit
        /\ all_logs = ConcatLogs(ex_pages)
        /\ \A i \in 1..Len(all_logs) : all_logs[i] = i
        /\ \A i \in 1..(Len(ex_pages) - 1) : ~Short(ex_pages[i])
        /\ (ex_pc = "loop" /\ ex_pages # <<>>) => ~Short(ex_pages[Len(ex_pages)])
        /\ ex_pc = "done" => (ex_pages # <<>> /\ Short(ex_pages[Len(ex_pages)]))
        /\ (/\ ex_pc = "done"
            /\ \A i \in 1..(Len(ex_pages) - 1) : Len(ex_pages[i].logs) = ex_limit
            /\ ex_pages[Len(ex_pages)].kind \in {"list", "dict"})
              => Len(all_logs) = (Len(ex_requests) - 1) * ex_limit
                                 + Len(ex_pages[Len(ex_pages)].logs)

\* two full pages of two records and a short page of one: three requests,
\* five records
C5_Witness ==
    /\ ex_pc = "done"
    /\ ~ex_trunc
    /\ ex_limit = 2
    /\ ex_requests = <<0, 2, 4>>
    /\ all_logs = <<1, 2, 3, 4, 5>>

\* C6 (as claimed): whatever the upstream answers, the paging loop
\* eventually stops and returns.
C6_PagerTerminates == (ex_pc = "loop") ~> (ex_pc = "done")

\* C7: a request that fails (in transport, or with another exception) is
\* the last request: the paging has stopped and returned, without raising,
\* exactly the records of the pages accumulated before it, in order.
C7_FailureKeepsPartialResult ==
    ~ex_trunc =>
        \A n \in 1..Len(ex_pages) :
            ex_pages[n].kind \in {"transport", "exception"}
               => /\ n = Len(ex_pages)
                  /\ Len(ex_requests) = n
                  /\ ex_pc = "done"
                  /\ all_logs = ConcatLogs(SubSeq(ex_pages, 1, n - 1))
                  /\ Len(all_logs) >= (n - 1) * ex_limit

\* a transport failure on the third request, after two full pages
C7_Witness ==
    /\ ex_pc = "done"
    /\ ~ex_trunc
    /\ ex_limit = 2
    /\ Len(ex_pages) = 3
    /\ ex_pages[3].kind = "transport"
    /\ all_logs = <<1, 2, 3, 4>>

(***************************************************************************)
(* Properties of the file persistence (specification SaveSpec).            *)
(***************************************************************************)
\* the last call of save_report for path p, 0 if there is none
LastSave(p) ==
    IF \E i \in 1..Len(saved) : saved[i].path = p
    THEN CHOOSE i \in 1..Len(saved) :
            /\ saved[i].path = p
            /\ \A j \in 1..Len(saved) : saved[j].path = p => j <= i
    ELSE 0

\* C9: the combined report is saved to a path that depends on the date
\* only, by whole-file overwrite: after any number of saves the file of a
\* date holds exactly the content of the last save for that date (so saving
\* the same content again changes nothing) and dates never saved have no
\* file; a save for one date leaves the files of the other dates alone.
C9_SaveOverwrites ==
    /\ \A i \in 1..Len(saved) :
          saved[i].path = [dir |-> "reports", date |-> saved[i].date]
    /\ DOMAIN files = {saved[i].path : i \in 1..Len(saved)}
    /\ \A p \in DOMAIN files : files[p] = <<saved[LastSave(p)].content>>

\* the same content saved twice for one date, with a save for another date
\* in between
C9_Witness ==
    /\ Len(saved) = 3
    /\ saved[1] = saved[3]
    /\ saved[2].date # saved[1].date
    /\ saved[2].content # saved[1].content
(***************************************************************************)
(* Properties of the report rendering (specification RenderSpec).          *)
(***************************************************************************)
\* C11 (as claimed): a record whose summary is empty is not omitted from the
\* rendered report: every record of the list has its section, and the
\* section of a record with an empty summary has no body text.
C11_EmptySummaryKeepsSection ==
    \A k \in 1..Len(tpl_content) :
        /\ Len(tpl_content[k].sections) = Len(tpl_summaries)
        /\ \A i \in 1..Len(tpl_summaries) :
              tpl_summaries[i].summary.kind = "empty"
                 => tpl_content[k].sections[i].body.kind = "empty"

\* C12 (as claimed): for every list of records, lists ending with records
\* of empty summary included, the sections come in input order, a rule
\* follows every section but the last and no rule follows the last section.
C12_RuleBetweenSectionsOnly ==
    \A k \in 1..Len(tpl_content) :
        LET sections == tpl_content[k].sections
        IN /\ \A i, j \in 1..Len(sections) :
                 i < j => sections[i].body.group < sections[j].body.group
           /\ \A i \in 1..Len(sections) :
                 sections[i].rule_after <=> i < Len(sections)

(***************************************************************************)
(* Properties of the normalizer (specification NormSpec).                  *)
(***************************************************************************)
\* the record normalized and its textContent, '' when the key is absent
TheLog == norm_log[1]
TextContent == IF TheLog.content = Absent THEN "" ELSE TheLog.content

\* a type-49 record that is neither a link share nor a quote reply with a
\* referenced message
OtherLink ==
    /\ TheLog.type = 49
    /\ TheLog.subType # 51
    /\ ~(TheLog.subType = 57 /\ TheLog.contents.tag = "dict"
         /\ TheLog.contents.refer.tag = "dict")

C16_NormalizerTotal == norm_out.kind # "raise"

(***************************************************************************)
(* Properties of the remote summarizers (specification SumSpec).           *)
(***************************************************************************)
\* the record survives normalization
Survives(log) == format_one(log, FALSE).kind = "line"

\* the number of surviving records among the first i of chat_logs
Rank(chat_logs, i) == Cardinality({j \in 1..i : Survives(chat_logs[j])})

\* lines holds the line of every surviving record of chat_logs, in input
\* order, and nothing else
IsTranscriptOf(lines, chat_logs) ==
    /\ Len(lines) = Rank(chat_logs, Len(chat_logs))
    /\ \A i \in 1..Len(chat_logs) :
          Survives(chat_logs[i])
             => lines[Rank(chat_logs, i)] = format_one(chat_logs[i], FALSE)

\* C17 (as claimed): the transcript in the prompt holds the surviving lines
\* in input order and, when more than 50 lines survive, only the last 50
\* of them.
C17_WindowedTranscript ==
    \A k \in 1..Len(sum_prompt) :
        LET n == Rank(sum_logs, Len(sum_logs))
            cut == IF n > 50 THEN n - 50 ELSE 0
        IN /\ Len(sum_prompt[k]) = n - cut
           /\ \A i \in 1..Len(sum_logs) :
                 (Survives(sum_logs[i]) /\ Rank(sum_logs, i) > cut)
                    => sum_prompt[k][Rank(sum_logs, i) - cut]
                          = format_one(sum_logs[i], FALSE)

\* C18: whenever summarize_chat_logs of a remote variant returns after a
\* call of the model, the value returned is the model's text (stripped of
\* surrounding blanks) followed by the collapsed block, and the block holds
\* every surviving line of chat_logs, in input order, none left out, also
\* when no line or more than 50 lines survive; without records no model is
\* called and the no-records placeholder is returned.
C18_DigestCarriesFullTranscript ==
    sum_pc = "returned" =>
        IF sum_logs = <<>>
        THEN sum_result.kind = "placeholder" /\ sum_prompt = <<>>
        ELSE /\ sum_result.kind = "digest"
             /\ Len(sum_prompt) = 1
             /\ sum_reply # None
             /\ sum_result.text = (IF sum_reply = " hi " THEN "hi" ELSE sum_reply)
             /\ IsTranscriptOf(sum_result.block, sum_logs)

\* the digest of a day of 51 text messages: all 51 lines are in the block
C18_Witness ==
    /\ sum_pc = "returned"
    /\ sum_result.kind = "digest"
    /\ Len(sum_logs) = 51
    /\ Len(sum_result.block) = 51

(***************************************************************************)
(* Properties of the time window (specification WinSpec).                  *)
(***************************************************************************)
\* days from 1 January of FirstYear to the date
RECURSIVE DaysBefore(_, _)
DaysBefore(y, m) ==
    IF m > 1 THEN DaysIn(y, m - 1) + DaysBefore(y, m - 1)
    ELSE IF y > FirstYear THEN DaysIn(y - 1, 12) + DaysBefore(y - 1, 12)
    ELSE 0
Ordinal(y, m, d) == DaysBefore(y, m) + d - 1

\* minutes from 1 January of FirstYear, 00:00, to a printed time
Minutes(t) == (Ordinal(t[1], t[2], t[3]) * 24 + t[4]) * 60 + t[5]

C20_ProxyRestored ==
    proxy_config.enabled =>
        /\ proxy_pc = "exited"
              => /\ body_outcome \in {"returned", "raised"}
                 /\ \A n \in {"HTTP_PROXY", "HTTPS_PROXY", "http_proxy", "https_proxy"} :
                       environ[n] = env_at_entry[n]
        /\ proxy_pc = "body"
              => /\ \A n \in {"HTTP_PROXY", "http_proxy"} :
                       environ[n] = IF proxy_config.http_proxy = None
                                    THEN env_at_entry[n]
                                    ELSE proxy_config.http_proxy
                 /\ \A n \in {"HTTPS_PROXY", "https_proxy"} :
                       environ[n] = IF proxy_config.https_proxy = None
                                    THEN env_at_entry[n]
                                    ELSE proxy_config.https_proxy

\* the body raised under an http and https overlay: HTTP_PROXY, set before
\* entry, has its old value again and https_proxy, not set before, is not
\* set
C20_Witness ==
    /\ proxy_pc = "exited"
    /\ body_outcome = "raised"
    /\ proxy_config = [enabled |-> TRUE, http_proxy |-> "http://p",
                       https_proxy |-> "https://q"]
    /\ env_at_entry["HTTP_PROXY"] = "http://old"
    /\ environ["HTTP_PROXY"] = "http://old"
    /\ env_at_entry["https_proxy"] = None
    /\ environ["https_proxy"] = None

(***************************************************************************)
(* Properties of the construction (specification ConstructSpec).           *)
(***************************************************************************)
\* every segment of a comma-separated value is empty or blank
AllBlank(raw) == \A i \in 1..Len(raw) : raw[i] \in {"", " "}

\* the backend selector in force
Selector == IF cfg_env.AI_SERVICE = Absent THEN "local" ELSE cfg_env.AI_SERVICE

\* the credential list and the model identifier of the selected remote backend
SelectedKeys ==
    IF Selector = "openai" THEN cfg_env.OPENAI_API_KEY ELSE cfg_env.GEMINI_API_KEY
SelectedModel ==
    IF Selector = "openai" THEN cfg_env.OPENAI_MODEL ELSE cfg_env.GEMINI_MODEL

\* C21: when the group list is empty, or the selected remote backend lacks
\* a credential or a model identifier, or the selector is not one of
\* local/openai/gemini, the constructor raises: no summarizer is built, and
\* all it has done is read the configuration and build the API client and
\* the proxy manager, none of which sends a request or writes a report.
C21_BadConfigFails ==
    (/\ ctor_pc # "start"
     /\ \/ AllBlank(cfg_env.TARGET_GROUPS)
        \/ Selector \notin {"local", "openai", "gemini"}
        \/ /\ Selector \in {"openai", "gemini"}
           /\ AllBlank(SelectedKeys) \/ SelectedModel \in {Absent, ""})
        => /\ ctor_pc = "raised"
           /\ ctor_error \in {"ValueError_target_groups", "ValueError_api_key",
                              "ValueError_model", "ValueError_unsupported"}
           /\ ctor_summarizer = NoSummarizer
           /\ \A i \in 1..Len(ctor_steps) :
                 ctor_steps[i] \in {"load_dotenv", "setup_logging", "load_config",
                                    "api_client", "proxy_manager"}

\* gemini selected with a credential and without a model identifier
C21_Witness ==
    /\ ctor_pc = "raised"
    /\ ctor_error = "ValueError_model"
    /\ cfg_env.AI_SERVICE = "gemini"
    /\ cfg_env.GEMINI_API_KEY = <<"k1">>
    /\ cfg_env.TARGET_GROUPS = <<"g1", "g2">>

\* the first credential of a comma-separated value, trimmed
FirstCredential(raw) ==
    LET first == CHOOSE i \in 1..Len(raw) :
                    /\ raw[i] \notin {"", " "}
                    /\ \A j \in 1..(i - 1) : raw[j] \in {"", " "}
    IN  IF raw[first] = " k1 " THEN "k1" ELSE raw[first]

\* C27 (as claimed): the client of the selected remote backend is
\* constructed with the first configured credential, trimmed, and with no
\* other.
C27_FirstCredentialOnly ==
    (ctor_pc = "constructed" /\ ctor_summarizer.variant \in {"openai", "gemini"})
        => ctor_summarizer.api_key = <<FirstCredential(SelectedKeys)>>

(***************************************************************************)
(* Properties of the Local summarizer (specification LocalSpec).           *)
(***************************************************************************)
\* C25 (as claimed): the Local summarizer returns a string for every record
\* list; it never raises.
C25_LocalNeverRaises ==
    loc_pc # "idle" => /\ loc_pc = "returned"
                       /\ loc_error = NoError
                       /\ loc_result.kind \in {"placeholder", "summary"}

C28_DeadProbeStopsRun ==
    error = "RuntimeError_unavailable"
        => /\ pc = "raised"
           /\ result = NoResult
           /\ requests = <<>>
           /\ summarizer_calls = <<>>
           /\ summaries = <<>>
           /\ files = <<>>
           /\ group_files = {}
           /\ notifications = <<>>

\* a run stopped by the probe, its report date chosen
C28_Witness ==
    /\ error = "RuntimeError_unavailable"
    /\ pc = "raised"
    /\ report_date \in Dates
    /\ gi = 0

(***************************************************************************)
(* Properties of nested proxy contexts (specification NestSpec).           *)
(***************************************************************************)
\* C30 (as claimed): once every context of the manager has exited, the
\* four variables have their values from before the first entry, nested
\* entries included; with the proxy disabled they are never changed.
C30_NestedRestored ==
    /\ proxy_stack = <<>> => environ = env_before_first
    /\ ~proxy_config.enabled => (environ = env_before_first /\ original_env = <<>>)

(***************************************************************************)
(* Properties of the exporter's main (specification ExportSpec).           *)
(***************************************************************************)
\* the argument names a string that is no date, or a start after its end
BadDateArg(arg) ==
    \/ \E i \in 1..Len(arg) : ~strptime(arg[i]).ok
    \/ DateAfter(strptime(arg[1]), strptime(arg[Len(arg)]))

\* C22 (as claimed): a malformed --date, or a range whose start is after
\* its end, makes main return a non-zero exit code without any request and
\* without any file written.
C22_BadDateRejected ==
    (xm_pc # "start" /\ BadDateArg(xm_arg))
        => /\ xm_pc = "done"
           /\ xm_exit = 1
           /\ xm_events = <<>>

(***************************************************************************)
(* Properties of main (specification MainSpec).                            *)
(***************************************************************************)
\* the number of dates of the loop that ended the given way
HowMany(how) ==
    Cardinality({i \in 1..Len(m_outcomes) : m_outcomes[i].how = how})

\* C23 (as claimed): main returns 0 only when every requested report was
\* produced or skipped, and 1 whenever any failure occurred, in the
\* default, single-date and range invocations alike.
C23_ExitCodeTellsFailure ==
    m_pc = "done" =>
        /\ m_exit \in {0, 1}
        /\ m_exit = 0 <=> /\ m_outcomes # <<>>
                          /\ \A i \in 1..Len(m_outcomes) :
                                m_outcomes[i].how \in {"generated", "skipped"}

\* C24: with a range as argument the dates are those from the start to the
\* end, ascending; the dates are taken in that order, one outcome each
\* (generated, skipped or failed), whatever the outcomes before; when main
\* is done every date has its outcome, and the two counters of the loop are
\* the numbers of dates generated and skipped.
C24_RangeLoop ==
    (m_pc \in {"range", "done"} /\ Len(m_arg) = 2 /\ m_dates # <<>>) =>
        /\ strptime(m_dates[1]) = strptime(m_arg[1])
        /\ strptime(m_dates[Len(m_dates)]) = strptime(m_arg[2])
        /\ \A i \in 1..(Len(m_dates) - 1) :
              /\ strptime(m_dates[i + 1]).d = strptime(m_dates[i]).d + 1
              /\ strptime(m_dates[i + 1]).m = strptime(m_dates[i]).m
        /\ Len(m_outcomes) = m_idx - 1
        /\ Len(m_outcomes) <= Len(m_dates)
        /\ \A i \in 1..Len(m_outcomes) :
              /\ m_outcomes[i].date = m_dates[i]
              /\ m_outcomes[i].how \in {"generated", "skipped", "failed"}
        /\ m_pc = "done" => Len(m_outcomes) = Len(m_dates)
        /\ Len(m_dates) > 1 =>
              /\ m_generated = HowMany("generated")
              /\ m_skipped = HowMany("skipped")

\* a range of three dates, done: the first failed, the second was skipped,
\* the third failed
C24_Witness ==
    /\ m_pc = "done"
    /\ Len(m_dates) = 3
    /\ Len(m_outcomes) = 3
    /\ m_outcomes[1].how = "failed"
    /\ m_outcomes[2].how = "skipped"
    /\ m_outcomes[3].how = "failed"
    /\ m_skipped = 1

\* C29 (as claimed): with a range as argument a date whose report file
\* existed is never regenerated: nothing is done for it and its file is as
\* it was.
C29_RangeNeverRegenerates ==
    Len(m_arg) = 2 =>
        /\ \A i \in 1..Len(m_events) : m_events[i].date \notin m_existing
        /\ \A d \in m_existing : m_files[d] = "old"

\* C29 (amended): in the loop over a range of more than one date, a date
\* whose report file existed is skipped: nothing is done for it (no probe,
\* retrieval, summarizer call, write or notification) and its file is as it
\* was.  When the argument names one date, be it as a range from a date to
\* itself, the run is made whether or not the file exists: it starts with
\* the liveness probe, and when it gets to save_report the file holds the
\* new content.
C29_LoopNeverRegenerates ==
    /\ Len(m_dates) > 1 =>
          /\ \A i \in 1..Len(m_events) : m_events[i].date \notin m_existing
          /\ \A d \in m_existing : m_files[d] = "old"
          /\ \A i \in 1..Len(m_outcomes) :
                m_outcomes[i].how = "skipped" <=> m_outcomes[i].date \in m_existing
    /\ (m_pc = "done" /\ Len(m_dates) = 1) =>
          /\ m_events # <<>>
          /\ m_events[1] = [op |-> "health_check", date |-> m_dates[1]]
          /\ (\E i \in 1..Len(m_events) : m_events[i].op = "save_report")
                => m_files[m_dates[1]] = "new"

\* a range from a date to itself whose file existed: the run was made and
\* the file was overwritten
C29_Witness ==
    /\ m_pc = "done"
    /\ Len(m_arg) = 2
    /\ Len(m_dates) = 1
    /\ m_dates[1] \in m_existing
    /\ m_files[m_dates[1]] = "new"

====
